---------------------------- MODULE Spec2Model ----------------------------
(***************************************************************************)
(* Line-follower firmware: the controller hierarchy (BaseController and    *)
(* the P, PD, PI, PID variants) and the EEPROM calibration manager.        *)
(*                                                                         *)
(* Numbers.  The controllers compute in float.  The model computes in      *)
(* exact arithmetic on integers: every value (error, output, setpoint,     *)
(* bounds, integral, prev_error, anti_windup) is held in thousandths, a    *)
(* gain is held in tenths, and dt is held in thousandths of a second (so   *)
(* dt = dt_ms, as dt_ms / 1000.0f seconds).  The inputs are drawn from     *)
(* sets on which every division below is exact.  Float rounding, overflow  *)
(* to infinity and NaN are outside the model.                              *)
(***************************************************************************)
EXTENDS Integers, Sequences, FiniteSets, TLC

VARIABLES
    \* ---- controller (BaseController + variant) ----
    variant,        \* "P", "PD", "PI" or "PID": the class of the object
    Kp, Ki, Kd,     \* gains, in tenths (Ki, Kd are 0 where the class has none)
    dt,             \* sample time, thousandths of a second
    min_output, max_output,
    setpoint, output,
    integral,       \* PI, PID
    prev_error,     \* PD, PID
    anti_windup,    \* PI, PID
    ctlOp,          \* the last controller call
    ctlRet,         \* what the last compute() returned
    ctlArg,         \* the argument of the last compute() or
                    \* setAntiWindupLimit()
    initOk,         \* what the last init() returned
    ctlOps,         \* number of controller calls made
    \* ---- EEPROMCalibrationManager, the EEPROM and the QTR sensor object ----
    sensorCount_, eepromSize_, startAddress_, initialized_, lastError_,
    eeprom,         \* the EEPROM library's bytes, as EEPROM.read() returns them
    qtrMinimum,     \* qtr.calibrationOn.minimum[]
    qtrMaximum,     \* qtr.calibrationOn.maximum[]
    calOp,          \* the last manager call
    calRet,         \* what it returned
    commitOk,       \* what EEPROM.commit() answered in that call, if called
    nWrites,        \* EEPROM.write() calls made by that call
    nCommits,       \* EEPROM.commit() calls made by that call
    nReads,         \* EEPROM.read() calls made by that call
    destFresh,      \* the last loadCalibration was handed a new sensor object
    flipped,        \* offset in the record of a bit that flipped since the
                    \* record was written, or -1
    cleared,        \* this manager's clearCalibration has returned true and
                    \* its saveCalibration has not returned true since
    calOps,         \* number of manager calls and outside events so far
    \* ---- main.ino: the globals, loop()'s static and loop()'s position ----
    calibRequested, startRequested,     \* volatile flags set by the handlers
    calibrationLoaded,
    running,        \* static bool running of loop()
    pc,             \* the statement of loop() that is next
    calibStage,     \* one calibration press is followed at a time: "none",
                    \* "pressed", "cleared" (the loop has cleared the flag
                    \* since), "stopped" (and set running to false),
                    \* "served" (and has entered performCalibration)
    calibPressAt,   \* where loop() stood when the followed press came
    startStage      \* one start press is followed: "none", "pressed",
                    \* "consumed" (the loop has cleared the flag since)

ctlState == <<variant, Kp, Ki, Kd, dt, min_output, max_output, setpoint,
              output, integral, prev_error, anti_windup>>
ctlVars == <<variant, Kp, Ki, Kd, dt, min_output, max_output, setpoint,
             output, integral, prev_error, anti_windup, ctlOp, ctlRet,
             ctlArg, initOk, ctlOps>>

mgrVars == <<sensorCount_, eepromSize_, startAddress_, initialized_,
             lastError_>>
qtrVars == <<qtrMinimum, qtrMaximum>>
callVars == <<calOp, calRet, commitOk, nWrites, nCommits, nReads, destFresh,
              flipped, cleared, calOps>>
calVars == <<mgrVars, eeprom, qtrVars, callVars>>

loopVars == <<calibRequested, startRequested, calibrationLoaded, running, pc,
              calibStage, calibPressAt, startStage>>

vars == <<ctlVars, calVars, loopVars>>

---------------------------------------------------------------------------
(* Bounds and input sets of the controller model *)

MaxCtlOps == 3

Variants == {"P", "PD", "PI", "PID"}
HasIntegral == variant \in {"PI", "PID"}
HasDerivative == variant \in {"PD", "PID"}

\* Constructor arguments: gains in tenths, dt_ms, bounds in thousandths.
CtorArgs ==
    { [Kp |-> 20, Ki |-> 5, Kd |-> 1, dt_ms |-> 10,
       min_output |-> -1023000, max_output |-> 1023000],
      [Kp |-> 20, Ki |-> 5, Kd |-> 1, dt_ms |-> 0,
       min_output |-> 1023000, max_output |-> -1023000],
      [Kp |-> 10, Ki |-> 10, Kd |-> 0, dt_ms |-> 1000,
       min_output |-> 100000, max_output |-> 500000],
      [Kp |-> 20, Ki |-> 5, Kd |-> 1, dt_ms |-> 10,
       min_output |-> 500000, max_output |-> 100000],
      [Kp |-> -10, Ki |-> 0, Kd |-> 0, dt_ms |-> 10,
       min_output |-> -5000, max_output |-> 0],
      [Kp |-> 0, Ki |-> 0, Kd |-> 0, dt_ms |-> 10,
       min_output |-> -1023000, max_output |-> 1023000] }

ErrorSet == {-500000, 0, 4000, 500000}
MeasuredSet == {0, 400000}
SetpointSet == {0, 100000}
GainSet == {-10, 0, 5, 20}
GainPairs == {<<20, 5>>, <<0, 0>>, <<10, -10>>}
GainTriples == {<<20, 5, 1>>, <<0, 0, 0>>, <<10, 10, -10>>}
LimitArgs == {<<-1023000, 1023000>>, <<500000, 100000>>, <<0, 0>>,
              <<-10000, 10000>>}
WindupArgs == {0, -50000, 3000, 5000000}
SampleTimeArgs == {0, 10, 1000}

---------------------------------------------------------------------------
(* BaseController *)

Abs(x) == IF x < 0 THEN -x ELSE x

\* faulty variant: the upper limit is not applied
applyLimits_NoUpperLimit(value, min, max) ==
    IF value < min THEN min ELSE value

applyLimits(value, min, max) ==
    IF value > max THEN max
    ELSE IF value < min THEN min
    ELSE value

\* gain (tenths) times value (thousandths), in thousandths; the value is
\* divided first to keep the product within TLC's integers
GainTimes(k, x) == k * (x \div 10)

\* Ki * error * dt, in thousandths
IntegralStep(k, error, dtv) == (GainTimes(k, error) * dtv) \div 1000

\* faulty variant: the rate is taken against 0, not against prev_error
ErrorRate_IgnoresPrevious(error, prev, dtv) == (error * 1000) \div dtv

\* (error - prev_error) / dt, in thousandths per second
ErrorRate(error, prev, dtv) == ((error - prev) * 1000) \div dtv

\* The state a constructor leaves: the base part, then the variant's part.
BaseController_ctor(dt_ms, lo, hi) ==
    /\ setpoint = 0
    /\ output = 0
    /\ dt = (IF dt_ms = 0 THEN 1 ELSE dt_ms)
    /\ min_output = (IF lo >= hi THEN hi ELSE lo)
    /\ max_output = (IF lo >= hi THEN lo ELSE hi)

\* faulty variant: the anti-windup limit is taken from the stored upper limit
Constructed_WindupFromStoredLimit(v, a) ==
    /\ variant = v
    /\ BaseController_ctor(a.dt_ms, a.min_output, a.max_output)
    /\ Kp = a.Kp
    /\ Ki = (IF v \in {"PI", "PID"} THEN a.Ki ELSE 0)
    /\ Kd = (IF v \in {"PD", "PID"} THEN a.Kd ELSE 0)
    /\ integral = 0
    /\ prev_error = 0
    /\ anti_windup = (IF v \in {"PI", "PID"} THEN Abs(max_output) ELSE 0)
    /\ ctlOp = "ctor"
    /\ ctlRet = 0
    /\ ctlArg = 0
    /\ initOk = FALSE
    /\ ctlOps = 0

Constructed(v, a) ==
    /\ variant = v
    /\ BaseController_ctor(a.dt_ms, a.min_output, a.max_output)
    /\ Kp = a.Kp
    /\ Ki = (IF v \in {"PI", "PID"} THEN a.Ki ELSE 0)
    /\ Kd = (IF v \in {"PD", "PID"} THEN a.Kd ELSE 0)
    /\ integral = 0
    /\ prev_error = 0
    \* anti_windup(fabs(max_output)): the constructor's argument
    /\ anti_windup = (IF v \in {"PI", "PID"} THEN Abs(a.max_output) ELSE 0)
    /\ ctlOp = "ctor"
    /\ ctlRet = 0
    /\ ctlArg = 0
    /\ initOk = FALSE
    /\ ctlOps = 0


\* every controller call is counted
Called(op) ==
    /\ ctlOps < MaxCtlOps
    /\ ctlOps' = ctlOps + 1
    /\ ctlOp' = op
    /\ UNCHANGED <<ctlArg, calVars, loopVars>>

\* a call of setAntiWindupLimit(limit)
WindupLimited(limit) ==
    /\ ctlOps < MaxCtlOps
    /\ ctlOps' = ctlOps + 1
    /\ ctlOp' = "setAntiWindupLimit"
    /\ ctlArg' = limit
    /\ UNCHANGED <<calVars, loopVars>>

\* a call of compute(error)
Computed(error) ==
    /\ ctlOps < MaxCtlOps
    /\ ctlOps' = ctlOps + 1
    /\ ctlOp' = "compute"
    /\ ctlArg' = error
    /\ UNCHANGED <<calVars, loopVars>>

\* BaseController::init(): FALSE leaves everything as it was.
BaseInitOk == dt > 0 /\ min_output < max_output

\* faulty variant: the sign of the gains is not checked
GainsOk_IgnoresSign ==
    CASE variant = "P" -> TRUE
      [] variant = "PD" -> ~(Kp = 0 /\ Kd = 0)
      [] variant = "PI" -> ~(Kp = 0 /\ Ki = 0) /\ anti_windup > 0
      [] variant = "PID" -> ~(Kp = 0 /\ Ki = 0 /\ Kd = 0)

GainsOk ==
    /\ Kp >= 0 /\ Ki >= 0 /\ Kd >= 0
    /\ CASE variant = "P" -> TRUE
         [] variant = "PD" -> ~(Kp = 0 /\ Kd = 0)
         [] variant = "PI" -> ~(Kp = 0 /\ Ki = 0) /\ anti_windup > 0
         [] variant = "PID" -> ~(Kp = 0 /\ Ki = 0 /\ Kd = 0)

\* faulty variant: init stores 0 limited to the output range
init_LimitsOutput ==
    /\ Called("init")
    /\ initOk' = (BaseInitOk /\ GainsOk)
    /\ output' = (IF BaseInitOk THEN applyLimits(0, min_output, max_output)
                   ELSE output)
    /\ setpoint' = (IF BaseInitOk THEN 0 ELSE setpoint)
    /\ integral' = (IF BaseInitOk /\ GainsOk THEN 0 ELSE integral)
    /\ prev_error' = (IF BaseInitOk /\ GainsOk THEN 0 ELSE prev_error)
    /\ UNCHANGED <<variant, Kp, Ki, Kd, dt, min_output, max_output,
                   anti_windup, ctlRet>>

\* faulty variant: init leaves the setpoint as it is
init_KeepsSetpoint ==
    /\ Called("init")
    /\ initOk' = (BaseInitOk /\ GainsOk)
    /\ output' = (IF BaseInitOk THEN 0 ELSE output)
    /\ integral' = (IF BaseInitOk /\ GainsOk THEN 0 ELSE integral)
    /\ prev_error' = (IF BaseInitOk /\ GainsOk THEN 0 ELSE prev_error)
    /\ UNCHANGED <<variant, Kp, Ki, Kd, dt, min_output, max_output, setpoint,
                   anti_windup, ctlRet>>

init ==
    /\ Called("init")
    /\ initOk' = (BaseInitOk /\ GainsOk)
    /\ output' = (IF BaseInitOk THEN 0 ELSE output)
    /\ setpoint' = (IF BaseInitOk THEN 0 ELSE setpoint)
    /\ integral' = (IF BaseInitOk /\ GainsOk THEN 0 ELSE integral)
    /\ prev_error' = (IF BaseInitOk /\ GainsOk THEN 0 ELSE prev_error)
    /\ UNCHANGED <<variant, Kp, Ki, Kd, dt, min_output, max_output,
                   anti_windup, ctlRet>>

\* faulty variant: reset leaves the integral as it is
reset_KeepsIntegral ==
    /\ Called("reset")
    /\ output' = 0
    /\ prev_error' = 0
    /\ UNCHANGED <<variant, Kp, Ki, Kd, dt, min_output, max_output, setpoint,
                   integral, anti_windup, ctlRet, initOk>>

reset ==
    /\ Called("reset")
    /\ output' = 0
    /\ integral' = 0
    /\ prev_error' = 0
    /\ UNCHANGED <<variant, Kp, Ki, Kd, dt, min_output, max_output, setpoint,
                   anti_windup, ctlRet, initOk>>

(* compute(error), one definition per class *)

\* faulty variant: the P controller adds the new term to its last output
PController_compute_Accumulates(error) ==
    /\ variant = "P"
    /\ Computed(error)
    /\ output' = applyLimits(output + GainTimes(Kp, error),
                             min_output, max_output)
    /\ ctlRet' = output'
    /\ UNCHANGED <<variant, Kp, Ki, Kd, dt, min_output, max_output, setpoint,
                   integral, prev_error, anti_windup, initOk>>

PController_compute(error) ==
    /\ variant = "P"
    /\ Computed(error)
    /\ output' = applyLimits(GainTimes(Kp, error), min_output, max_output)
    /\ ctlRet' = output'
    /\ UNCHANGED <<variant, Kp, Ki, Kd, dt, min_output, max_output, setpoint,
                   integral, prev_error, anti_windup, initOk>>

\* faulty variant: prev_error is not stored when the output is at a limit
PDController_compute_HoldsErrorAtLimit(error) ==
    /\ variant = "PD"
    /\ Computed(error)
    /\ LET p_term == GainTimes(Kp, error)
           d_term == GainTimes(Kd, ErrorRate(error, prev_error, dt))
       IN /\ output' = applyLimits(p_term + d_term, min_output, max_output)
          /\ prev_error' = (IF output' = p_term + d_term THEN error
                            ELSE prev_error)
    /\ ctlRet' = output'
    /\ UNCHANGED <<variant, Kp, Ki, Kd, dt, min_output, max_output, setpoint,
                   integral, anti_windup, initOk>>

PDController_compute(error) ==
    /\ variant = "PD"
    /\ Computed(error)
    /\ LET p_term == GainTimes(Kp, error)
           d_term == GainTimes(Kd, ErrorRate(error, prev_error, dt))
       IN output' = applyLimits(p_term + d_term, min_output, max_output)
    /\ prev_error' = error
    /\ ctlRet' = output'
    /\ UNCHANGED <<variant, Kp, Ki, Kd, dt, min_output, max_output, setpoint,
                   integral, anti_windup, initOk>>

\* faulty variant: the integral is held while the output is at a limit
PIController_compute_ConditionalIntegration(error) ==
    /\ variant = "PI"
    /\ Computed(error)
    /\ LET accumulated == applyLimits(integral + IntegralStep(Ki, error, dt),
                                      -anti_windup, anti_windup)
           pi_output == GainTimes(Kp, error) + accumulated
       IN integral' = (IF pi_output > max_output \/ pi_output < min_output
                       THEN integral ELSE accumulated)
    /\ output' = applyLimits(GainTimes(Kp, error) + integral',
                             min_output, max_output)
    /\ ctlRet' = output'
    /\ UNCHANGED <<variant, Kp, Ki, Kd, dt, min_output, max_output, setpoint,
                   prev_error, anti_windup, initOk>>

PIController_compute(error) ==
    /\ variant = "PI"
    /\ Computed(error)
    /\ integral' = applyLimits(integral + IntegralStep(Ki, error, dt),
                               -anti_windup, anti_windup)
    /\ output' = applyLimits(GainTimes(Kp, error) + integral',
                             min_output, max_output)
    /\ ctlRet' = output'
    /\ UNCHANGED <<variant, Kp, Ki, Kd, dt, min_output, max_output, setpoint,
                   prev_error, anti_windup, initOk>>

\* faulty variant: the integral is accumulated but not clamped to the anti-windup limit
PIDController_compute_NoAntiWindup(error) ==
    /\ variant = "PID"
    /\ Computed(error)
    /\ integral' = integral + IntegralStep(Ki, error, dt)
    /\ LET p_term == GainTimes(Kp, error)
           d_term == GainTimes(Kd, ErrorRate(error, prev_error, dt))
       IN output' = applyLimits(p_term + integral' + d_term,
                                min_output, max_output)
    /\ prev_error' = error
    /\ ctlRet' = output'
    /\ UNCHANGED <<variant, Kp, Ki, Kd, dt, min_output, max_output, setpoint,
                   anti_windup, initOk>>

\* faulty variant: prev_error is stored before the derivative is taken
PIDController_compute_StoresErrorFirst(error) ==
    /\ variant = "PID"
    /\ Computed(error)
    /\ integral' = applyLimits(integral + IntegralStep(Ki, error, dt),
                               -anti_windup, anti_windup)
    /\ prev_error' = error
    /\ LET p_term == GainTimes(Kp, error)
           d_term == GainTimes(Kd, ErrorRate(error, prev_error', dt))
       IN output' = applyLimits(p_term + integral' + d_term,
                                min_output, max_output)
    /\ ctlRet' = output'
    /\ UNCHANGED <<variant, Kp, Ki, Kd, dt, min_output, max_output, setpoint,
                   anti_windup, initOk>>

PIDController_compute(error) ==
    /\ variant = "PID"
    /\ Computed(error)
    /\ integral' = applyLimits(integral + IntegralStep(Ki, error, dt),
                               -anti_windup, anti_windup)
    /\ LET p_term == GainTimes(Kp, error)
           d_term == GainTimes(Kd, ErrorRate(error, prev_error, dt))
       IN output' = applyLimits(p_term + integral' + d_term,
                                min_output, max_output)
    /\ prev_error' = error
    /\ ctlRet' = output'
    /\ UNCHANGED <<variant, Kp, Ki, Kd, dt, min_output, max_output, setpoint,
                   anti_windup, initOk>>

compute(error) ==
    \/ PController_compute(error)
    \/ PDController_compute(error)
    \/ PIController_compute(error)
    \/ PIDController_compute(error)

\* error = setpoint - measured_value, then the virtual compute
computeWithSetpoint(measured_value) == compute(setpoint - measured_value)

\* faulty variant: a sample time of 0 ms is stored like any other
setSampleTime_AcceptsZero(dt_ms) ==
    /\ Called("setSampleTime")
    /\ dt' = dt_ms
    /\ UNCHANGED <<variant, Kp, Ki, Kd, min_output, max_output, setpoint,
                   output, integral, prev_error, anti_windup, ctlRet, initOk>>

setSampleTime(dt_ms) ==
    /\ Called("setSampleTime")
    /\ dt' = (IF dt_ms = 0 THEN dt ELSE dt_ms)
    /\ UNCHANGED <<variant, Kp, Ki, Kd, min_output, max_output, setpoint,
                   output, integral, prev_error, anti_windup, ctlRet, initOk>>

\* faulty variant: the limits are stored as given, without the swap
setOutputLimits_NoSwap(lo, hi) ==
    /\ Called("setOutputLimits")
    /\ min_output' = lo
    /\ max_output' = hi
    /\ output' = applyLimits(output, min_output', max_output')
    /\ UNCHANGED <<variant, Kp, Ki, Kd, dt, setpoint, integral, prev_error,
                   anti_windup, ctlRet, initOk>>

\* faulty variant: the limits are stored but the output is not re-clamped
setOutputLimits_NoReclamp(lo, hi) ==
    /\ Called("setOutputLimits")
    /\ min_output' = (IF lo >= hi THEN hi ELSE lo)
    /\ max_output' = (IF lo >= hi THEN lo ELSE hi)
    /\ UNCHANGED <<variant, Kp, Ki, Kd, dt, setpoint, output, integral,
                   prev_error, anti_windup, ctlRet, initOk>>

setOutputLimits(lo, hi) ==
    /\ Called("setOutputLimits")
    /\ min_output' = (IF lo >= hi THEN hi ELSE lo)
    /\ max_output' = (IF lo >= hi THEN lo ELSE hi)
    /\ output' = applyLimits(output, min_output', max_output')
    /\ UNCHANGED <<variant, Kp, Ki, Kd, dt, setpoint, integral, prev_error,
                   anti_windup, ctlRet, initOk>>

setSetpoint(v) ==
    /\ Called("setSetpoint")
    /\ setpoint' = v
    /\ UNCHANGED <<variant, Kp, Ki, Kd, dt, min_output, max_output, output,
                   integral, prev_error, anti_windup, ctlRet, initOk>>

(* gain setters *)

setKp(k) ==
    /\ Called("setKp")
    /\ Kp' = k
    /\ UNCHANGED <<variant, Ki, Kd, dt, min_output, max_output, setpoint,
                   output, integral, prev_error, anti_windup, ctlRet, initOk>>

\* faulty variant: the integral is kept when the new Ki equals the old one
setKi_KeepsIntegralOnSameKi(k) ==
    /\ HasIntegral
    /\ Called("setKi")
    /\ Ki' = k
    /\ integral' = (IF k = Ki THEN integral ELSE 0)
    /\ UNCHANGED <<variant, Kp, Kd, dt, min_output, max_output, setpoint,
                   output, prev_error, anti_windup, ctlRet, initOk>>

setKi(k) ==
    /\ HasIntegral
    /\ Called("setKi")
    /\ Ki' = k
    /\ integral' = 0
    /\ UNCHANGED <<variant, Kp, Kd, dt, min_output, max_output, setpoint,
                   output, prev_error, anti_windup, ctlRet, initOk>>

setKd(k) ==
    /\ HasDerivative
    /\ Called("setKd")
    /\ Kd' = k
    /\ UNCHANGED <<variant, Kp, Ki, dt, min_output, max_output, setpoint,
                   output, integral, prev_error, anti_windup, ctlRet, initOk>>

PDController_setGains(kp, kd) ==
    /\ variant = "PD"
    /\ Called("setGains")
    /\ Kp' = kp
    /\ Kd' = kd
    /\ UNCHANGED <<variant, Ki, dt, min_output, max_output, setpoint, output,
                   integral, prev_error, anti_windup, ctlRet, initOk>>

PIController_setGains(kp, ki) ==
    /\ variant = "PI"
    /\ Called("setGains")
    /\ Kp' = kp
    /\ Ki' = ki
    /\ integral' = 0
    /\ UNCHANGED <<variant, Kd, dt, min_output, max_output, setpoint, output,
                   prev_error, anti_windup, ctlRet, initOk>>

PIDController_setGains(kp, ki, kd) ==
    /\ variant = "PID"
    /\ Called("setGains")
    /\ Kp' = kp
    /\ Ki' = ki
    /\ Kd' = kd
    /\ integral' = 0
    /\ UNCHANGED <<variant, dt, min_output, max_output, setpoint, output,
                   prev_error, anti_windup, ctlRet, initOk>>

\* faulty variant: the PI limit is capped at |max_output| as the PID limit is
PIController_setAntiWindupLimit_Capped(limit) ==
    /\ variant = "PI"
    /\ WindupLimited(limit)
    /\ anti_windup' = (IF Abs(limit) > Abs(max_output) THEN Abs(max_output)
                       ELSE Abs(limit))
    /\ integral' = applyLimits(integral, -anti_windup', anti_windup')
    /\ UNCHANGED <<variant, Kp, Ki, Kd, dt, min_output, max_output, setpoint,
                   output, prev_error, ctlRet, initOk>>

PIController_setAntiWindupLimit(limit) ==
    /\ variant = "PI"
    /\ WindupLimited(limit)
    /\ anti_windup' = Abs(limit)
    /\ integral' = applyLimits(integral, -anti_windup', anti_windup')
    /\ UNCHANGED <<variant, Kp, Ki, Kd, dt, min_output, max_output, setpoint,
                   output, prev_error, ctlRet, initOk>>

\* faulty variant: the PID limit is not capped at |max_output|
PIDController_setAntiWindupLimit_Uncapped(limit) ==
    /\ variant = "PID"
    /\ WindupLimited(limit)
    /\ anti_windup' = Abs(limit)
    /\ integral' = applyLimits(integral, -anti_windup', anti_windup')
    /\ UNCHANGED <<variant, Kp, Ki, Kd, dt, min_output, max_output, setpoint,
                   output, prev_error, ctlRet, initOk>>

PIDController_setAntiWindupLimit(limit) ==
    /\ variant = "PID"
    /\ WindupLimited(limit)
    /\ anti_windup' = (IF Abs(limit) > Abs(max_output) THEN Abs(max_output)
                       ELSE Abs(limit))
    /\ integral' = applyLimits(integral, -anti_windup', anti_windup')
    /\ UNCHANGED <<variant, Kp, Ki, Kd, dt, min_output, max_output, setpoint,
                   output, prev_error, ctlRet, initOk>>

---------------------------------------------------------------------------
(* EEPROMCalibrationManager (version 2.0: 8 sensors, 40-byte record) *)

CALIBRATION_MAGIC == 51966      \* 0xCAFE
CALIBRATION_VERSION == 2
MAX_SENSORS == 8
ADC_MAX == 4095
EEPROM_SIZE == 64               \* EEPROM.begin(EEPROM_SIZE)

MaxCalOps == 3

Slots == 0 .. (MAX_SENSORS - 1)
Byte == 0 .. 255

\* sizeof(CalibrationData), packed: 2 + 1 + 1 + 2*N + 2*N + 4
RecordSize == 4 + (4 * MAX_SENSORS) + 4
calculateStorageSize(sensorCount) == RecordSize

(* uint32_t, held as <<high 16 bits, low 16 bits>> *)
U32Add(c, f) ==
    LET lo == c[2] + f
    IN <<(c[1] + (lo \div 65536)) % 65536, lo % 65536>>

\* (checksum << 1) | (checksum >> 31)
RotateLeft1(c) ==
    <<((c[1] * 2) % 65536) + (c[2] \div 32768),
      ((c[2] * 2) % 65536) + (c[1] \div 32768)>>

\* faulty variant: a plain shift, the top bit is dropped
AddRotate_ShiftOnly(c, f) ==
    LET s == U32Add(c, f)
    IN <<((s[1] * 2) % 65536) + (s[2] \div 32768), (s[2] * 2) % 65536>>

AddRotate(c, f) == RotateLeft1(U32Add(c, f))

\* faulty variant: only the slots of the active sensors enter the checksum
ChecksumFields_ActiveSlotsOnly(data) ==
    <<data.magic, data.version, data.sensorCount>>
    \o [k \in 1 .. (2 * data.sensorCount) |->
           IF k % 2 = 1 THEN data.minimum[(k - 1) \div 2]
           ELSE data.maximum[(k - 1) \div 2]]

\* the fields in the order calculateChecksum takes them: magic, version,
\* sensorCount, then minimum[i], maximum[i] for every slot i < MAX_SENSORS
ChecksumFields(data) ==
    <<data.magic, data.version, data.sensorCount>>
    \o [k \in 1 .. (2 * MAX_SENSORS) |->
           IF k % 2 = 1 THEN data.minimum[(k - 1) \div 2]
           ELSE data.maximum[(k - 1) \div 2]]

\* checksum += field; rotate: over fields[lo .. hi], from checksum c.  The
\* run is taken in two halves, the second starting from what the first
\* gives; the test on the high half (a uint32_t has 16 bits there) has the
\* first half computed before the second starts.
RECURSIVE ChecksumFold(_, _, _, _)
ChecksumFold(c, fields, lo, hi) ==
    IF lo = hi THEN AddRotate(c, fields[lo])
    ELSE LET mid == (lo + hi) \div 2
             first == ChecksumFold(c, fields, lo, mid)
         IN IF first[1] < 65536
            THEN ChecksumFold(first, fields, mid + 1, hi)
            ELSE first

calculateChecksum(data) ==
    LET fields == ChecksumFields(data)
    IN ChecksumFold(<<0, 0>>, fields, 1, Len(fields))

(* The record as bytes: reinterpret_cast of the packed struct, little-endian.
   A run of bytes is a sequence; the EEPROM is the sequence of its bytes, the
   byte at address a being eeprom[a + 1]. *)
Lo8(x) == x % 256
Hi8(x) == x \div 256

\* uint16_t array[MAX_SENSORS] as bytes
ArrayBytes(arr) ==
    [k \in 1 .. (2 * MAX_SENSORS) |->
        IF k % 2 = 1 THEN Lo8(arr[(k - 1) \div 2])
        ELSE Hi8(arr[(k - 1) \div 2])]

Serialize(data) ==
    <<Lo8(data.magic), Hi8(data.magic), data.version, data.sensorCount>>
    \o (ArrayBytes(data.minimum)
        \o (ArrayBytes(data.maximum)
            \o <<Lo8(data.checksum[2]), Hi8(data.checksum[2]),
                 Lo8(data.checksum[1]), Hi8(data.checksum[1])>>))

\* uint16_t at byte offset k of a run of bytes
U16At(b, k) == b[k + 1] + (256 * b[k + 2])

Deserialize(b) ==
    [magic |-> U16At(b, 0),
     version |-> b[3],
     sensorCount |-> b[4],
     minimum |-> [i \in Slots |-> U16At(b, 4 + (2 * i))],
     maximum |-> [i \in Slots |-> U16At(b, 4 + (2 * MAX_SENSORS) + (2 * i))],
     checksum |-> <<U16At(b, RecordSize - 2), U16At(b, RecordSize - 4)>>]

\* the bytes at startAddress_ .. startAddress_ + sizeof - 1 of a store
RecordBytes(store, start) == SubSeq(store, start + 1, start + RecordSize)

\* for (i < dataSize) EEPROM.write(startAddress_ + i, dataBytes[i])
WriteBytes(store, start, bytes) ==
    SubSeq(store, 1, start)
    \o (bytes \o SubSeq(store, start + RecordSize + 1, Len(store)))

(* validateCalibrationData: the five layers, in order *)
\* layer 5: the first sensor below n whose range is bad decides
\* faulty variant: the range check forgets the ADC limit
BadRange_NoAdcLimit(data, i) ==
    data.minimum[i] >= data.maximum[i]

BadRange(data, i) ==
    data.minimum[i] >= data.maximum[i] \/ data.maximum[i] > ADC_MAX

\* faulty variant: an inverted range anywhere is reported before an ADC excess
SemanticCheck_InvalidFirst(data, n) ==
    LET bad == {i \in 0 .. (n - 1) : BadRange(data, i)}
    IN IF bad = {} THEN "SUCCESS"
       ELSE IF \E i \in bad : data.minimum[i] >= data.maximum[i]
            THEN "INVALID_CALIBRATION_RANGE"
            ELSE "ADC_RANGE_EXCEEDED"

SemanticCheck(data, n) ==
    LET bad == {i \in 0 .. (n - 1) : BadRange(data, i)}
    IN IF bad = {} THEN "SUCCESS"
       ELSE LET i == CHOOSE x \in bad : \A y \in bad : x <= y
            IN IF data.minimum[i] >= data.maximum[i]
               THEN "INVALID_CALIBRATION_RANGE"
               ELSE "ADC_RANGE_EXCEEDED"

\* faulty variant: the checksum is verified before the structural layers
validateCalibrationData_ChecksumFirst(data, n) ==
    IF data.checksum # calculateChecksum(data) THEN "CHECKSUM_FAILED"
    ELSE IF data.magic # CALIBRATION_MAGIC THEN "MAGIC_NUMBER_MISMATCH"
    ELSE IF data.version # CALIBRATION_VERSION THEN "VERSION_MISMATCH"
    ELSE IF data.sensorCount # n THEN "SENSOR_COUNT_MISMATCH"
    ELSE SemanticCheck(data, n)

validateCalibrationData(data, n) ==
    IF data.magic # CALIBRATION_MAGIC THEN "MAGIC_NUMBER_MISMATCH"
    ELSE IF data.version # CALIBRATION_VERSION THEN "VERSION_MISMATCH"
    ELSE IF data.sensorCount # n THEN "SENSOR_COUNT_MISMATCH"
    ELSE IF data.checksum # calculateChecksum(data) THEN "CHECKSUM_FAILED"
    ELSE SemanticCheck(data, n)

\* faulty variant: the record is validated against its own sensor count
loadCalibrationData_OwnCount(store) ==
    LET data == Deserialize(RecordBytes(store, startAddress_))
    IN validateCalibrationData(data, data.sensorCount)

\* loadCalibrationData: read sizeof bytes at startAddress_, then validate
loadCalibrationData(store) ==
    validateCalibrationData(Deserialize(RecordBytes(store, startAddress_)),
                            sensorCount_)

\* faulty variant: the scan forgets the ADC limit
hasValidData_NoAdcLimit(qmin, qmax, n) ==
    \E i \in 0 .. (n - 1) : qmin[i] < qmax[i]

\* faulty variant: the scan asks every sensor to have a valid range
hasValidData_EverySensor(qmin, qmax, n) ==
    \A i \in 0 .. (n - 1) : qmin[i] < qmax[i] /\ qmax[i] <= ADC_MAX

\* the input scan of saveCalibration: some sensor has a valid range
hasValidData(qmin, qmax, n) ==
    \E i \in 0 .. (n - 1) : qmin[i] < qmax[i] /\ qmax[i] <= ADC_MAX

\* faulty variant: the copy loop stops one sensor short
BuildCalData_OneShort(qmin, qmax, n) ==
    LET d == [magic |-> CALIBRATION_MAGIC,
              version |-> CALIBRATION_VERSION,
              sensorCount |-> n,
              minimum |-> [i \in Slots |-> IF i < n - 1 THEN qmin[i] ELSE 0],
              maximum |-> [i \in Slots |-> IF i < n - 1 THEN qmax[i] ELSE 0],
              checksum |-> <<0, 0>>]
    IN [d EXCEPT !.checksum = calculateChecksum(d)]

\* faulty variant: every slot is copied from the sensor object, none zeroed
BuildCalData_CopiesAllSlots(qmin, qmax, n) ==
    LET d == [magic |-> CALIBRATION_MAGIC,
              version |-> CALIBRATION_VERSION,
              sensorCount |-> n,
              minimum |-> [i \in Slots |-> qmin[i]],
              maximum |-> [i \in Slots |-> qmax[i]],
              checksum |-> <<0, 0>>]
    IN [d EXCEPT !.checksum = calculateChecksum(d)]

\* the record saveCalibration builds from the sensor object
BuildCalData(qmin, qmax, n) ==
    LET d == [magic |-> CALIBRATION_MAGIC,
              version |-> CALIBRATION_VERSION,
              sensorCount |-> n,
              minimum |-> [i \in Slots |-> IF i < n THEN qmin[i] ELSE 0],
              maximum |-> [i \in Slots |-> IF i < n THEN qmax[i] ELSE 0],
              checksum |-> <<0, 0>>]
    IN [d EXCEPT !.checksum = calculateChecksum(d)]

\* every manager call and outside event is counted
CalCalled(op) ==
    /\ calOps < MaxCalOps
    /\ calOps' = calOps + 1
    /\ calOp' = op
    /\ UNCHANGED <<ctlVars, loopVars>>

\* faulty variant: the space is checked before the sensor count
ConstructorResult_SpaceFirst(sensorCount, eepromSize, startAddress, ok) ==
    IF startAddress + calculateStorageSize(sensorCount) > eepromSize
    THEN [initialized |-> FALSE, lastError |-> "INSUFFICIENT_SPACE",
          reads |-> 0, writes |-> 0, commits |-> 0]
    ELSE IF sensorCount = 0 \/ sensorCount > MAX_SENSORS
    THEN [initialized |-> FALSE, lastError |-> "INVALID_SENSOR_COUNT",
          reads |-> 0, writes |-> 0, commits |-> 0]
    ELSE IF ok
    THEN [initialized |-> TRUE, lastError |-> "SUCCESS",
          reads |-> 1, writes |-> 1, commits |-> 1]
    ELSE [initialized |-> FALSE, lastError |-> "EEPROM_NOT_READY",
          reads |-> 1, writes |-> 1, commits |-> 1]

\* The state the constructor leaves, given what the probe commit answers.
\* The probe writes back the byte it read, so the bytes stay as they are.
ConstructorResult(sensorCount, eepromSize, startAddress, ok) ==
    IF sensorCount = 0 \/ sensorCount > MAX_SENSORS
    THEN [initialized |-> FALSE, lastError |-> "INVALID_SENSOR_COUNT",
          reads |-> 0, writes |-> 0, commits |-> 0]
    ELSE IF startAddress + calculateStorageSize(sensorCount) > eepromSize
    THEN [initialized |-> FALSE, lastError |-> "INSUFFICIENT_SPACE",
          reads |-> 0, writes |-> 0, commits |-> 0]
    ELSE IF ok
    THEN [initialized |-> TRUE, lastError |-> "SUCCESS",
          reads |-> 1, writes |-> 1, commits |-> 1]
    ELSE [initialized |-> FALSE, lastError |-> "EEPROM_NOT_READY",
          reads |-> 1, writes |-> 1, commits |-> 1]

\* faulty variant: the probe writes a zero instead of the byte it read
Construct_ProbeWritesZero(sensorCount, eepromSize, startAddress, ok) ==
    LET r == ConstructorResult(sensorCount, eepromSize, startAddress, ok)
    IN /\ CalCalled("construct")
       /\ sensorCount_' = sensorCount
       /\ eepromSize_' = eepromSize
       /\ startAddress_' = startAddress
       /\ initialized_' = r.initialized
       /\ lastError_' = r.lastError
       /\ eeprom' = IF r.writes = 1
                    THEN [eeprom EXCEPT ![startAddress + 1] = 0]
                    ELSE eeprom
       /\ calRet' = r.initialized
       /\ commitOk' = (IF r.commits = 1 THEN ok ELSE commitOk)
       /\ nReads' = r.reads
       /\ nWrites' = r.writes
       /\ nCommits' = r.commits
       /\ cleared' = FALSE
       /\ UNCHANGED <<qtrVars, destFresh, flipped>>

Construct(sensorCount, eepromSize, startAddress, ok) ==
    LET r == ConstructorResult(sensorCount, eepromSize, startAddress, ok)
    IN /\ CalCalled("construct")
       /\ sensorCount_' = sensorCount
       /\ eepromSize_' = eepromSize
       /\ startAddress_' = startAddress
       /\ initialized_' = r.initialized
       /\ lastError_' = r.lastError
       /\ eeprom' = IF r.writes = 1
                    THEN [eeprom EXCEPT ![startAddress + 1] =
                                         eeprom[startAddress + 1]]
                    ELSE eeprom
       /\ calRet' = r.initialized
       /\ commitOk' = (IF r.commits = 1 THEN ok ELSE commitOk)
       /\ nReads' = r.reads
       /\ nWrites' = r.writes
       /\ nCommits' = r.commits
       /\ cleared' = FALSE
       /\ UNCHANGED <<qtrVars, destFresh, flipped>>

\* faulty variant: the answer of EEPROM.commit() is not looked at
SaveError_CommitIgnored(ok, verified) ==
    IF ~verified THEN "VERIFICATION_FAILED" ELSE "SUCCESS"

\* lastError_ once the record is written: the commit, then the read-back
SaveError(ok, verified) ==
    IF ~ok THEN "EEPROM_COMMIT_FAILED"
    ELSE IF ~verified THEN "VERIFICATION_FAILED"
    ELSE "SUCCESS"

saveCalibration(ok) ==
    /\ CalCalled("save")
    /\ UNCHANGED <<sensorCount_, eepromSize_, startAddress_, initialized_,
                   qtrVars, destFresh>>
    /\ IF ~initialized_
       THEN /\ lastError_' = "EEPROM_NOT_READY"
            /\ calRet' = FALSE
            /\ nReads' = 0 /\ nWrites' = 0 /\ nCommits' = 0
            /\ UNCHANGED <<eeprom, commitOk, flipped>>
       ELSE IF ~hasValidData(qtrMinimum, qtrMaximum, sensorCount_)
       THEN /\ lastError_' = "NO_VALID_DATA"
            /\ calRet' = FALSE
            /\ nReads' = 0 /\ nWrites' = 0 /\ nCommits' = 0
            /\ UNCHANGED <<eeprom, commitOk, flipped>>
       ELSE LET calData == BuildCalData(qtrMinimum, qtrMaximum, sensorCount_)
                written == WriteBytes(eeprom, startAddress_,
                                      Serialize(calData))
                verifyData == Deserialize(RecordBytes(written, startAddress_))
            IN /\ eeprom' = written
               /\ flipped' = -1
               /\ nWrites' = RecordSize
               /\ nCommits' = 1
               /\ commitOk' = ok
               /\ LET verified ==
                          /\ loadCalibrationData(written) = "SUCCESS"
                          /\ verifyData.magic = calData.magic
                          /\ verifyData.version = calData.version
                          /\ verifyData.sensorCount = calData.sensorCount
                          /\ verifyData.checksum = calData.checksum
                  IN /\ lastError_' = SaveError(ok, verified)
                     /\ calRet' = (SaveError(ok, verified) = "SUCCESS")
                     /\ nReads' = (IF ok THEN RecordSize ELSE 0)
    /\ cleared' = (cleared /\ ~calRet')

\* The sensor object handed to loadCalibration(QTRSensors &qtr): the one the
\* application holds, or a new one whose calibration arrays are zero.
NoReadings == [i \in Slots |-> 0]
DestMinimum(fresh) == IF fresh THEN NoReadings ELSE qtrMinimum
DestMaximum(fresh) == IF fresh THEN NoReadings ELSE qtrMaximum

\* faulty variant: the bounds are copied whatever the validation said
LoadInto_Unchecked(dest, stored, n, result) ==
    [i \in Slots |-> IF i < n THEN stored[i] ELSE dest[i]]

\* a destination array after loadCalibration: the first n entries are copied
\* from the record, and only when the record validated
LoadInto(dest, stored, n, result) ==
    IF result # "SUCCESS" THEN dest
    ELSE [i \in Slots |-> IF i < n THEN stored[i] ELSE dest[i]]

loadCalibration(fresh) ==
    /\ CalCalled("load")
    /\ UNCHANGED <<sensorCount_, eepromSize_, startAddress_, initialized_,
                   eeprom, commitOk, flipped, cleared>>
    /\ destFresh' = fresh
    /\ nWrites' = 0 /\ nCommits' = 0
    /\ IF ~initialized_
       THEN /\ lastError_' = "EEPROM_NOT_READY"
            /\ calRet' = FALSE
            /\ nReads' = 0
            /\ qtrMinimum' = DestMinimum(fresh)
            /\ qtrMaximum' = DestMaximum(fresh)
       ELSE LET calData == Deserialize(RecordBytes(eeprom, startAddress_))
                result == loadCalibrationData(eeprom)
            IN /\ nReads' = RecordSize
               /\ lastError_' = result
               /\ calRet' = (result = "SUCCESS")
               /\ qtrMinimum' = LoadInto(DestMinimum(fresh), calData.minimum,
                                         sensorCount_, result)
               /\ qtrMaximum' = LoadInto(DestMaximum(fresh), calData.maximum,
                                         sensorCount_, result)

\* faulty variant: the check records its verdict in lastError_, as loadCalibration does
hasValidCalibration_RecordsError ==
    /\ CalCalled("hasValid")
    /\ UNCHANGED <<sensorCount_, eepromSize_, startAddress_, initialized_,
                   eeprom, qtrVars, commitOk, destFresh, flipped, cleared>>
    /\ nWrites' = 0 /\ nCommits' = 0
    /\ nReads' = (IF initialized_ THEN RecordSize ELSE 0)
    /\ lastError_' = (IF initialized_ THEN loadCalibrationData(eeprom)
                      ELSE "EEPROM_NOT_READY")
    /\ calRet' = (initialized_ /\ loadCalibrationData(eeprom) = "SUCCESS")

hasValidCalibration ==
    /\ CalCalled("hasValid")
    /\ UNCHANGED <<mgrVars, eeprom, qtrVars, commitOk, destFresh, flipped,
                   cleared>>
    /\ nWrites' = 0 /\ nCommits' = 0
    /\ nReads' = (IF initialized_ THEN RecordSize ELSE 0)
    /\ calRet' = (initialized_ /\ loadCalibrationData(eeprom) = "SUCCESS")

\* faulty variant: the record range is filled with the erased value 0xFF
ZeroBytes_Erased == [k \in 1 .. RecordSize |-> 255]

ZeroBytes == [k \in 1 .. RecordSize |-> 0]

\* faulty variant: the record is cleared without looking at initialized_
clearCalibration_NoInitGuard(ok) ==
    /\ CalCalled("clear")
    /\ UNCHANGED <<sensorCount_, eepromSize_, startAddress_, initialized_,
                   qtrVars, destFresh>>
    /\ nReads' = 0
    /\ eeprom' = WriteBytes(eeprom, startAddress_, ZeroBytes)
    /\ flipped' = -1
    /\ nWrites' = RecordSize
    /\ nCommits' = 1
    /\ commitOk' = ok
    /\ lastError_' = (IF ok THEN "SUCCESS" ELSE "EEPROM_COMMIT_FAILED")
    /\ calRet' = ok
    /\ cleared' = (cleared \/ calRet')

\* faulty variant: a failed commit leaves lastError_ as it was
clearCalibration_StaleError(ok) ==
    /\ CalCalled("clear")
    /\ UNCHANGED <<sensorCount_, eepromSize_, startAddress_, initialized_,
                   qtrVars, destFresh>>
    /\ nReads' = 0
    /\ IF ~initialized_
       THEN /\ lastError_' = "EEPROM_NOT_READY"
            /\ calRet' = FALSE
            /\ nWrites' = 0 /\ nCommits' = 0
            /\ UNCHANGED <<eeprom, commitOk, flipped>>
       ELSE /\ eeprom' = WriteBytes(eeprom, startAddress_, ZeroBytes)
            /\ flipped' = -1
            /\ nWrites' = RecordSize
            /\ nCommits' = 1
            /\ commitOk' = ok
            /\ lastError_' = (IF ok THEN "SUCCESS" ELSE lastError_)
            /\ calRet' = ok
    /\ cleared' = (cleared \/ calRet')

\* faulty variant: a failed commit marks the manager uninitialized
clearCalibration_FailureUninitializes(ok) ==
    /\ CalCalled("clear")
    /\ UNCHANGED <<sensorCount_, eepromSize_, startAddress_, qtrVars,
                   destFresh>>
    /\ nReads' = 0
    /\ IF ~initialized_
       THEN /\ lastError_' = "EEPROM_NOT_READY"
            /\ calRet' = FALSE
            /\ nWrites' = 0 /\ nCommits' = 0
            /\ UNCHANGED <<eeprom, commitOk, flipped, initialized_>>
       ELSE /\ eeprom' = WriteBytes(eeprom, startAddress_, ZeroBytes)
            /\ flipped' = -1
            /\ nWrites' = RecordSize
            /\ nCommits' = 1
            /\ commitOk' = ok
            /\ lastError_' = (IF ok THEN "SUCCESS" ELSE "EEPROM_COMMIT_FAILED")
            /\ initialized_' = ok
            /\ calRet' = ok
    /\ cleared' = (cleared \/ calRet')

clearCalibration(ok) ==
    /\ CalCalled("clear")
    /\ UNCHANGED <<sensorCount_, eepromSize_, startAddress_, initialized_,
                   qtrVars, destFresh>>
    /\ nReads' = 0
    /\ IF ~initialized_
       THEN /\ lastError_' = "EEPROM_NOT_READY"
            /\ calRet' = FALSE
            /\ nWrites' = 0 /\ nCommits' = 0
            /\ UNCHANGED <<eeprom, commitOk, flipped>>
       ELSE /\ eeprom' = WriteBytes(eeprom, startAddress_, ZeroBytes)
            /\ flipped' = -1
            /\ nWrites' = RecordSize
            /\ nCommits' = 1
            /\ commitOk' = ok
            /\ lastError_' = (IF ok THEN "SUCCESS" ELSE "EEPROM_COMMIT_FAILED")
            /\ calRet' = ok
    /\ cleared' = (cleared \/ calRet')

(* The world around the manager *)

\* ranges qtr.calibrate() may leave for a sensor: two good ones, the reset
\* value of performCalibration (4095, 0), and one beyond the ADC
RangeA == <<100, 3000>>
RangeB == <<50, 4095>>
RangeReset == <<4095, 0>>
RangeBeyond == <<200, 5000>>

\* all sensors read range p, but sensor k reads range q
Readings(p, q, k) == [lo |-> [i \in Slots |-> IF i = k THEN q[1] ELSE p[1]],
                      hi |-> [i \in Slots |-> IF i = k THEN q[2] ELSE p[2]]]

CalibrationRuns ==
    { Readings(RangeA, RangeA, 0),
      Readings(RangeB, RangeA, 1),
      Readings(RangeReset, RangeReset, 0),
      Readings(RangeReset, RangeBeyond, 0),
      Readings(RangeA, RangeBeyond, MAX_SENSORS - 1),
      Readings(RangeA, RangeReset, 0),
      Readings(RangeReset, RangeB, 1),
      Readings(RangeReset, RangeA, MAX_SENSORS - 1) }

Calibrate(r) ==
    /\ CalCalled("calibrate")
    /\ qtrMinimum' = r.lo
    /\ qtrMaximum' = r.hi
    /\ UNCHANGED <<mgrVars, eeprom, calRet, commitOk, nWrites, nCommits,
                   nReads, destFresh, flipped, cleared>>

\* A bit of the stored record flips (flash wear, a brown-out): bit b of the
\* byte at offset k, right after a save that reported success.
FlipOf(v, b) ==
    LET w == 2 ^ b
    IN IF (v \div w) % 2 = 1 THEN v - w ELSE v + w

FlipBit(k, b) ==
    /\ calOp = "save" /\ calRet
    /\ CalCalled("flip")
    /\ eeprom' = [eeprom EXCEPT ![startAddress_ + k + 1] = FlipOf(@, b)]
    /\ flipped' = k
    /\ UNCHANGED <<mgrVars, qtrVars, calRet, commitOk, nWrites, nCommits,
                   nReads, destFresh, cleared>>

\* constructor arguments <<sensorCount, eepromSize, startAddress>>
GoodCtorArgs ==
    { <<MAX_SENSORS, EEPROM_SIZE, 0>>,
      <<2, EEPROM_SIZE, 0>>,
      <<MAX_SENSORS, EEPROM_SIZE, EEPROM_SIZE - RecordSize>> }
BadCtorArgs ==
    { <<0, EEPROM_SIZE, 0>>,
      <<MAX_SENSORS + 1, EEPROM_SIZE, 0>>,
      <<MAX_SENSORS, RecordSize - 8, 0>>,
      <<MAX_SENSORS + 1, RecordSize - 8, 0>>,
      <<2, EEPROM_SIZE, EEPROM_SIZE - RecordSize + 6>> }

\* What the EEPROM may hold at power-up: erased flash, zeros, or a record
\* some firmware wrote at address 0 (good, or stale, or damaged).
GoodRecord(n) ==
    BuildCalData([i \in Slots |-> 100], [i \in Slots |-> 3000], n)

StoredRecords ==
    LET g == GoodRecord(MAX_SENSORS)
    IN { g,
         GoodRecord(2),
         [g EXCEPT !.magic = 0],
         [g EXCEPT !.version = 1],
         [g EXCEPT !.magic = 0, !.version = 1, !.sensorCount = 0],
         [g EXCEPT !.version = 1, !.sensorCount = 2, !.checksum = <<0, 0>>],
         [g EXCEPT !.checksum = <<0, 0>>],
         [g EXCEPT !.checksum = <<0, 0>>, !.maximum[0] = 50],
         [g EXCEPT !.sensorCount = 2, !.checksum = <<0, 0>>,
                   !.maximum[1] = 5000],
         BuildCalData([i \in Slots |-> 100],
                      [i \in Slots |-> IF i = 1 THEN 5000 ELSE 3000],
                      MAX_SENSORS),
         BuildCalData([i \in Slots |-> IF i = 1 THEN 6000 ELSE 100],
                      [i \in Slots |-> IF i = 1 THEN 5000 ELSE 3000],
                      MAX_SENSORS),
         BuildCalData([i \in Slots |-> IF i = 1 THEN 4095 ELSE 200],
                      [i \in Slots |-> IF i = 0 THEN 5000
                                       ELSE IF i = 1 THEN 0 ELSE 3000],
                      MAX_SENSORS) }

Filled(v) == [a \in 1 .. EEPROM_SIZE |-> v]

PowerUpStores ==
    {Filled(0), Filled(255)}
    \cup {WriteBytes(Filled(255), 0, Serialize(r)) : r \in StoredRecords}

\* loop() as setup() leaves it, not run while a component is examined
LoopIdle ==
    /\ calibRequested = FALSE
    /\ startRequested = FALSE
    /\ calibrationLoaded = FALSE
    /\ running = FALSE
    /\ pc = "serial"
    /\ calibStage = "none"
    /\ calibPressAt = "none"
    /\ startStage = "none"

\* The controller, left alone while the manager is examined
CtlIdle == Constructed("PID", CHOOSE a \in CtorArgs : a.dt_ms = 0)

InitCal ==
    /\ CtlIdle
    /\ LoopIdle
    /\ eeprom \in PowerUpStores
    /\ qtrMinimum = NoReadings
    /\ qtrMaximum = NoReadings
    /\ destFresh = FALSE
    /\ flipped = -1
    /\ cleared = FALSE
    /\ \E a \in GoodCtorArgs, ok \in BOOLEAN :
          LET r == ConstructorResult(a[1], a[2], a[3], ok)
          IN /\ sensorCount_ = a[1]
             /\ eepromSize_ = a[2]
             /\ startAddress_ = a[3]
             /\ initialized_ = r.initialized
             /\ lastError_ = r.lastError
             /\ calRet = r.initialized
             /\ commitOk = ok
             /\ nReads = r.reads
             /\ nWrites = r.writes
             /\ nCommits = r.commits
    /\ calOp = "construct"
    /\ calOps = 0

NextCal ==
    \/ \E a \in GoodCtorArgs \cup BadCtorArgs, ok \in BOOLEAN :
          Construct(a[1], a[2], a[3], ok)
    \/ \E r \in CalibrationRuns : Calibrate(r)
    \/ \E ok \in BOOLEAN : saveCalibration(ok)
    \/ \E fresh \in BOOLEAN : loadCalibration(fresh)
    \/ hasValidCalibration
    \/ \E ok \in BOOLEAN : clearCalibration(ok)

SpecCal == InitCal /\ [][NextCal]_vars

\* A saved record that is then damaged: the manager starts initialized on an
\* erased EEPROM with the sensors already calibrated.
InitFlip ==
    /\ CtlIdle
    /\ LoopIdle
    /\ eeprom = Filled(255)
    /\ \E r \in CalibrationRuns : qtrMinimum = r.lo /\ qtrMaximum = r.hi
    /\ destFresh = FALSE
    /\ flipped = -1
    /\ cleared = FALSE
    /\ \E a \in GoodCtorArgs :
          /\ sensorCount_ = a[1]
          /\ eepromSize_ = a[2]
          /\ startAddress_ = a[3]
    /\ initialized_ = TRUE
    /\ lastError_ = "SUCCESS"
    /\ calOp = "construct"
    /\ calRet = TRUE
    /\ commitOk = TRUE
    /\ nReads = 1 /\ nWrites = 1 /\ nCommits = 1
    /\ calOps = 0

NextFlip ==
    \/ \E ok \in BOOLEAN : saveCalibration(ok)
    \/ \E k \in 0 .. (RecordSize - 1), b \in 0 .. 7 : FlipBit(k, b)
    \/ \E fresh \in BOOLEAN : loadCalibration(fresh)
    \/ hasValidCalibration

SpecFlip == InitFlip /\ [][NextFlip]_vars

\* The life of a record: the manager starts initialized on an erased EEPROM
\* with the sensors already calibrated; the record is saved, cleared, read
\* back, and the manager is replaced by one constructed with other arguments.
InitRecord ==
    /\ CtlIdle
    /\ LoopIdle
    /\ eeprom = Filled(255)
    /\ \E r \in CalibrationRuns : qtrMinimum = r.lo /\ qtrMaximum = r.hi
    /\ destFresh = FALSE
    /\ flipped = -1
    /\ cleared = FALSE
    /\ \E a \in GoodCtorArgs :
          /\ sensorCount_ = a[1]
          /\ eepromSize_ = a[2]
          /\ startAddress_ = a[3]
    /\ initialized_ = TRUE
    /\ lastError_ = "SUCCESS"
    /\ calOp = "construct"
    /\ calRet = TRUE
    /\ commitOk = TRUE
    /\ nReads = 1 /\ nWrites = 1 /\ nCommits = 1
    /\ calOps = 0

NextRecord ==
    \/ \E ok \in BOOLEAN : saveCalibration(ok)
    \/ \E ok \in BOOLEAN : clearCalibration(ok)
    \/ \E a \in GoodCtorArgs, ok \in BOOLEAN : Construct(a[1], a[2], a[3], ok)
    \/ \E fresh \in BOOLEAN : loadCalibration(fresh)
    \/ hasValidCalibration

SpecRecord == InitRecord /\ [][NextRecord]_vars

\* One field of the stored record comes back changed (a worn cell, a write
\* by other firmware): field f of the record saved last reads as v.  The
\* fields are numbered as calculateChecksum takes them, 1 magic, 2 version,
\* 3 sensorCount, then minimum[i] and maximum[i] in turn; the field after
\* the last is the checksum itself.
ChecksumFieldId == 4 + (2 * MAX_SENSORS)
FieldIds == 1 .. ChecksumFieldId

\* values a field may come back with; 19198 is the magic number with its top
\* bit cleared
FieldValues == {0, 1, 4095, 19198, 65535}

SetField(data, f, v) ==
    IF f = 1 THEN [data EXCEPT !.magic = v]
    ELSE IF f = 2 THEN [data EXCEPT !.version = v % 256]
    ELSE IF f = 3 THEN [data EXCEPT !.sensorCount = v % 256]
    ELSE IF f = ChecksumFieldId THEN [data EXCEPT !.checksum = <<v, v>>]
    ELSE IF f % 2 = 0 THEN [data EXCEPT !.minimum[(f - 4) \div 2] = v]
    ELSE [data EXCEPT !.maximum[(f - 5) \div 2] = v]

RewriteField(f, v) ==
    /\ calOp = "save" /\ calRet
    /\ CalCalled("rewrite")
    /\ eeprom' = WriteBytes(eeprom, startAddress_,
                            Serialize(SetField(
                                Deserialize(RecordBytes(eeprom, startAddress_)),
                                f, v)))
    /\ UNCHANGED <<mgrVars, qtrVars, calRet, commitOk, nWrites, nCommits,
                   nReads, destFresh, flipped, cleared>>

\* The checksum at work: records are saved, one field of the stored record
\* changes, and the record is read back.
InitSum == InitFlip

NextSum ==
    \/ \E ok \in BOOLEAN : saveCalibration(ok)
    \/ \E f \in FieldIds, v \in FieldValues : RewriteField(f, v)
    \/ \E fresh \in BOOLEAN : loadCalibration(fresh)

SpecSum == InitSum /\ [][NextSum]_vars

\* The manager, left alone while a controller is examined
CalIdle ==
    /\ eeprom = Filled(255)
    /\ qtrMinimum = NoReadings
    /\ qtrMaximum = NoReadings
    /\ destFresh = FALSE
    /\ flipped = -1
    /\ cleared = FALSE
    /\ sensorCount_ = MAX_SENSORS
    /\ eepromSize_ = EEPROM_SIZE
    /\ startAddress_ = 0
    /\ initialized_ = TRUE
    /\ lastError_ = "SUCCESS"
    /\ calOp = "construct"
    /\ calRet = TRUE
    /\ commitOk = TRUE
    /\ nReads = 1 /\ nWrites = 1 /\ nCommits = 1
    /\ calOps = 0

---------------------------------------------------------------------------
(* Specifications *)

InitCtl ==
    /\ CalIdle
    /\ LoopIdle
    /\ \E v \in Variants, a \in CtorArgs : Constructed(v, a)

NextCtl ==
    \/ init
    \/ reset
    \/ \E e \in ErrorSet : compute(e)
    \/ \E m \in MeasuredSet : computeWithSetpoint(m)
    \/ \E ms \in SampleTimeArgs : setSampleTime(ms)
    \/ \E l \in LimitArgs : setOutputLimits(l[1], l[2])
    \/ \E v \in SetpointSet : setSetpoint(v)
    \/ \E k \in GainSet : setKp(k)
    \/ \E k \in GainSet : setKi(k)
    \/ \E k \in GainSet : setKd(k)
    \/ \E g \in GainPairs : PDController_setGains(g[1], g[2])
    \/ \E g \in GainPairs : PIController_setGains(g[1], g[2])
    \/ \E g \in GainTriples : PIDController_setGains(g[1], g[2], g[3])
    \/ \E l \in WindupArgs : PIController_setAntiWindupLimit(l)
    \/ \E l \in WindupArgs : PIDController_setAntiWindupLimit(l)

SpecCtl == InitCtl /\ [][NextCtl]_vars

---------------------------------------------------------------------------
(* Properties of the controllers, checked under SpecCtl *)

\* C1: for each of the four controllers, whatever calls came before, the
\* value compute() returns lies within [min_output, max_output] and is the
\* value getOutput() returns afterwards (the stored output).
C1_ComputeWithinLimits ==
    ctlOp = "compute" =>
        /\ ctlRet = output
        /\ min_output <= ctlRet
        /\ ctlRet <= max_output

\* C1 witness: a PID controller whose limits were changed to +-10 computes
\* and is held at the new upper limit.
C1_Witness ==
    /\ ctlOp = "compute"
    /\ variant = "PID"
    /\ ctlOps >= 2
    /\ max_output = 10000
    /\ ctlRet = max_output

\* C4: for the PI and the PID controller the accumulated integral never
\* leaves [-anti_windup, +anti_windup], in any reachable state.
C4_IntegralWithinAntiWindup ==
    variant \in {"PI", "PID"} =>
        /\ 0 - anti_windup <= integral
        /\ integral <= anti_windup

\* C4 witness: the limit was lowered to 3, and a compute() whose step would
\* carry the integral past it leaves the integral at the limit.
C4_Witness ==
    /\ variant = "PID"
    /\ ctlOp = "compute"
    /\ ctlOps = MaxCtlOps
    /\ anti_windup = 3000
    /\ integral = anti_windup

---------------------------------------------------------------------------
(* Properties of the calibration manager, checked under SpecCal *)

\* a sensor range saveCalibration accepts
ValidRange(lo, hi) == lo < hi /\ hi <= 4095

\* the validator's error code for the record in the store, where the manager
\* has room to read one
StoredVerdict(store) ==
    IF startAddress_ + RecordSize <= EEPROM_SIZE
    THEN loadCalibrationData(store)
    ELSE "UNREADABLE"

\* C2: on an initialized manager whose commit succeeds, saving bounds that
\* are valid for every sensor below sensorCount_ returns true, and a load
\* that follows it into a new, zeroed sensor object returns true and leaves
\* there the bounds that were saved, for every sensor below sensorCount_.
C2_RoundTrip ==
    [][ /\ ( /\ calOp' = "save"
             /\ initialized_
             /\ \A i \in 0 .. (sensorCount_ - 1) :
                    ValidRange(qtrMinimum[i], qtrMaximum[i])
             /\ commitOk' )
           => calRet'
        /\ ( /\ calOp = "save" /\ calRet
             /\ calOp' = "load" /\ destFresh' )
           => /\ calRet'
              /\ \A i \in 0 .. (sensorCount_ - 1) :
                    /\ qtrMinimum'[i] = qtrMinimum[i]
                    /\ qtrMaximum'[i] = qtrMaximum[i]
      ]_vars

\* C2 witness: bounds saved at address 24 by an 8-sensor manager have come
\* back into a zeroed sensor object (sensor 1 reads 100..3000, the others
\* 50..4095).
C2_Witness ==
    /\ calOp = "load" /\ calRet /\ destFresh
    /\ startAddress_ = 24
    /\ sensorCount_ = 8
    /\ qtrMinimum[1] = 100 /\ qtrMaximum[1] = 3000
    /\ \A i \in 0 .. 7 : i # 1 => qtrMinimum[i] = 50 /\ qtrMaximum[i] = 4095

\* C3 as stated: whenever loadCalibration returns false the sensor object is
\* as it was and lastError_ is the validator's code for the stored record;
\* and the sensor object changes only when the stored record validates.
C3_LoadAtomic_AsStated ==
    [][ calOp' = "load" =>
          /\ ~calRet' =>
                /\ qtrMinimum' = DestMinimum(destFresh')
                /\ qtrMaximum' = DestMaximum(destFresh')
                /\ lastError_' = StoredVerdict(eeprom)
          /\ ( \/ qtrMinimum' # DestMinimum(destFresh')
               \/ qtrMaximum' # DestMaximum(destFresh') )
             => StoredVerdict(eeprom) = "SUCCESS"
      ]_vars

\* C3 amended: whenever loadCalibration returns false the sensor object is
\* as it was; on an initialized manager lastError_ is then the validator's
\* code for the stored record, and on an uninitialized one it is
\* EEPROM_NOT_READY, the store not having been read.
C3_LoadAtomic ==
    [][ calOp' = "load" =>
          /\ ~calRet' =>
                /\ qtrMinimum' = DestMinimum(destFresh')
                /\ qtrMaximum' = DestMaximum(destFresh')
                /\ initialized_ => lastError_' = StoredVerdict(eeprom)
                /\ ~initialized_ => /\ lastError_' = "EEPROM_NOT_READY"
                                    /\ nReads' = 0
          /\ ( \/ qtrMinimum' # DestMinimum(destFresh')
               \/ qtrMaximum' # DestMaximum(destFresh') )
             => (initialized_ /\ StoredVerdict(eeprom) = "SUCCESS")
      ]_vars

\* C3 witness: a load into a calibrated sensor object was refused because a
\* stored maximum is beyond the ADC, and the object still holds its readings.
C3_Witness ==
    /\ calOp = "load" /\ ~calRet /\ ~destFresh
    /\ initialized_
    /\ lastError_ = "ADC_RANGE_EXCEEDED"
    /\ qtrMinimum[0] = 100 /\ qtrMaximum[0] = 3000

\* the fields of the stored record, and the checksum its fields give
StoredRecord == Deserialize(RecordBytes(eeprom, startAddress_))
StoredChecksumOk == StoredRecord.checksum = calculateChecksum(StoredRecord)

\* C5: validation reports the first layer that fails, in the order magic,
\* version, sensor count, checksum, ranges; a record whose checksum does not
\* match is never reported as INVALID_CALIBRATION_RANGE or ADC_RANGE_EXCEEDED.
C5_ValidationOrder ==
    (calOp = "load" /\ initialized_) =>
        LET d == StoredRecord
            magicOk == d.magic = 51966
            versionOk == d.version = 2
            countOk == d.sensorCount = sensorCount_
        IN /\ ~magicOk => lastError_ = "MAGIC_NUMBER_MISMATCH"
           /\ (magicOk /\ ~versionOk) => lastError_ = "VERSION_MISMATCH"
           /\ (magicOk /\ versionOk /\ ~countOk)
                 => lastError_ = "SENSOR_COUNT_MISMATCH"
           /\ (magicOk /\ versionOk /\ countOk /\ ~StoredChecksumOk)
                 => lastError_ = "CHECKSUM_FAILED"
           /\ (magicOk /\ versionOk /\ countOk /\ StoredChecksumOk)
                 => lastError_ \in {"SUCCESS", "INVALID_CALIBRATION_RANGE",
                                    "ADC_RANGE_EXCEEDED"}
           /\ ~StoredChecksumOk
                 => lastError_ \notin {"INVALID_CALIBRATION_RANGE",
                                       "ADC_RANGE_EXCEEDED", "SUCCESS"}

\* C5 witness: a record with a wrong version, a wrong sensor count and a
\* wrong checksum at once was reported as VERSION_MISMATCH.
C5_Witness ==
    /\ calOp = "load" /\ initialized_
    /\ lastError_ = "VERSION_MISMATCH"
    /\ StoredRecord.magic = 51966
    /\ StoredRecord.sensorCount # sensorCount_
    /\ ~StoredChecksumOk

\* C7: saveCalibration is all-or-nothing: when it returns true the store
\* holds a valid record with the bounds saved, and when it returns false a
\* valid record that was in the store before the call is still there,
\* byte for byte.
C7_SaveAllOrNothing ==
    [][ (calOp' = "save" /\ initialized_) =>
          /\ calRet' =>
                /\ StoredVerdict(eeprom') = "SUCCESS"
                /\ \A i \in 0 .. (sensorCount_ - 1) :
                      LET d == Deserialize(RecordBytes(eeprom', startAddress_))
                      IN /\ d.minimum[i] = qtrMinimum[i]
                         /\ d.maximum[i] = qtrMaximum[i]
          /\ (~calRet' /\ StoredVerdict(eeprom) = "SUCCESS") =>
                /\ StoredVerdict(eeprom') = "SUCCESS"
                /\ RecordBytes(eeprom', startAddress_)
                      = RecordBytes(eeprom, startAddress_)
      ]_vars

\* C8: when saveCalibration on an initialized manager passes the input scan
\* and returns false, lastError_ is EEPROM_WRITE_FAILED, EEPROM_COMMIT_FAILED
\* or VERIFICATION_FAILED; it is EEPROM_COMMIT_FAILED exactly when the commit
\* reported failure, and VERIFICATION_FAILED goes with a committed record
\* that fails validation when read back or differs in magic, version, sensor
\* count or checksum from the one written.
C8_SaveFailureCodes ==
    [][ ( /\ calOp' = "save"
          /\ initialized_
          /\ \E i \in 0 .. (sensorCount_ - 1) :
                ValidRange(qtrMinimum[i], qtrMaximum[i])
          /\ ~calRet' )
        => /\ nCommits' = 1
           /\ lastError_' \in {"EEPROM_WRITE_FAILED", "EEPROM_COMMIT_FAILED",
                               "VERIFICATION_FAILED"}
           /\ (lastError_' = "EEPROM_COMMIT_FAILED") <=> ~commitOk'
           /\ (lastError_' = "VERIFICATION_FAILED") =>
                 LET built == BuildCalData(qtrMinimum, qtrMaximum,
                                           sensorCount_)
                     back == Deserialize(RecordBytes(eeprom', startAddress_))
                 IN \/ StoredVerdict(eeprom') # "SUCCESS"
                    \/ back.magic # built.magic
                    \/ back.version # built.version
                    \/ back.sensorCount # built.sensorCount
                    \/ back.checksum # built.checksum
      ]_vars

\* C8 witness: a save whose commit succeeded was refused at the read-back
\* with VERIFICATION_FAILED, after the whole record had been written.
C8_Witness ==
    /\ calOp = "save" /\ ~calRet
    /\ initialized_
    /\ commitOk
    /\ nWrites = RecordSize /\ nCommits = 1
    /\ lastError_ = "VERIFICATION_FAILED"

\* C9: saveCalibration on an initialized manager whose sensor object has no
\* sensor below sensorCount_ with minimum < maximum <= 4095 returns false
\* with NO_VALID_DATA, writes no byte and commits nothing: the store is as
\* it was.
C9_NoValidDataNoWrite ==
    [][ ( /\ calOp' = "save"
          /\ initialized_
          /\ \A i \in 0 .. (sensorCount_ - 1) :
                ~(qtrMinimum[i] < qtrMaximum[i] /\ qtrMaximum[i] <= 4095) )
        => /\ ~calRet'
           /\ lastError_' = "NO_VALID_DATA"
           /\ nWrites' = 0
           /\ nCommits' = 0
           /\ eeprom' = eeprom
      ]_vars

\* C9 witness: a save was refused with NO_VALID_DATA although sensor 0 had
\* minimum < maximum, its maximum 5000 being beyond the ADC; the store still
\* holds the valid record it held.
C9_Witness ==
    /\ calOp = "save" /\ ~calRet
    /\ initialized_
    /\ lastError_ = "NO_VALID_DATA"
    /\ qtrMinimum[0] = 200 /\ qtrMaximum[0] = 5000
    /\ nWrites = 0 /\ nCommits = 0
    /\ StoredVerdict(eeprom) = "SUCCESS"

\* C10: hasValidCalibration changes neither the sensor object's bounds, nor
\* a byte of the store, nor lastError_, and commits nothing; called twice in
\* a row it answers the same.
C10_HasValidIsPure ==
    [][ calOp' = "hasValid" =>
          /\ qtrMinimum' = qtrMinimum
          /\ qtrMaximum' = qtrMaximum
          /\ eeprom' = eeprom
          /\ lastError_' = lastError_
          /\ nWrites' = 0
          /\ nCommits' = 0
          /\ calOp = "hasValid" => calRet' = calRet
      ]_vars

\* C10 witness: the second of two checks in a row answered true, as the
\* first did, with lastError_ still NO_VALID_DATA from the save refused
\* before them.
C10_Witness ==
    /\ calOp = "hasValid" /\ calRet
    /\ calOps = MaxCalOps
    /\ lastError_ = "NO_VALID_DATA"
    /\ nWrites = 0 /\ nCommits = 0

---------------------------------------------------------------------------
(* Single-bit corruption of a saved record, checked under SpecFlip *)

\* C6 as stated: after any single bit outside the checksum field of a
\* successfully saved record has flipped, validation of the record returns
\* CHECKSUM_FAILED.
C6_BitFlip_AsStated ==
    (flipped >= 0 /\ flipped < RecordSize - 4) =>
        /\ StoredVerdict(eeprom) = "CHECKSUM_FAILED"
        /\ calOp = "load" => lastError_ = "CHECKSUM_FAILED"

\* the layer that reports a flipped bit in the byte at offset k of a record
FlipVerdict(k) ==
    IF k < 2 THEN "MAGIC_NUMBER_MISMATCH"
    ELSE IF k = 2 THEN "VERSION_MISMATCH"
    ELSE IF k = 3 THEN "SENSOR_COUNT_MISMATCH"
    ELSE "CHECKSUM_FAILED"

\* C6 amended: after any single bit outside the checksum field of a
\* successfully saved record has flipped, validation rejects the record:
\* with CHECKSUM_FAILED when the bit is in a minimum or maximum slot, used
\* or not, and with MAGIC_NUMBER_MISMATCH, VERSION_MISMATCH or
\* SENSOR_COUNT_MISMATCH when it is in the magic, the version or the sensor
\* count, those layers being checked before the checksum.
C6_BitFlip ==
    (flipped >= 0 /\ flipped < RecordSize - 4) =>
        /\ StoredVerdict(eeprom) = FlipVerdict(flipped)
        /\ calOp = "load" => (~calRet /\ lastError_ = FlipVerdict(flipped))
        /\ calOp = "hasValid" => ~calRet

\* C6 witness: a bit flipped in the minimum slot of sensor 7 of a record
\* saved by a 2-sensor manager, and the load that followed was refused with
\* CHECKSUM_FAILED.
C6_Witness ==
    /\ sensorCount_ = 2
    /\ flipped = 4 + (2 * 7)
    /\ calOp = "load" /\ ~calRet
    /\ lastError_ = "CHECKSUM_FAILED"

---------------------------------------------------------------------------
(* The manager's guards and its constructor, checked under SpecCal *)

\* the four operations that act on a constructed manager
ManagerOps == {"save", "load", "clear", "hasValid"}

\* an operation refused by a manager that is not initialized: it returns
\* false, touches neither the store nor the sensor object
RefusedEarly ==
    /\ ~calRet'
    /\ nReads' = 0 /\ nWrites' = 0 /\ nCommits' = 0
    /\ eeprom' = eeprom
    /\ qtrMinimum' = (IF calOp' = "load" THEN DestMinimum(destFresh')
                      ELSE qtrMinimum)
    /\ qtrMaximum' = (IF calOp' = "load" THEN DestMaximum(destFresh')
                      ELSE qtrMaximum)

\* C11 as stated: on a manager that is not initialized, saveCalibration,
\* loadCalibration, clearCalibration and hasValidCalibration each return
\* false without a store read, write or commit, leave the bounds arrays as
\* they were, and leave EEPROM_NOT_READY in lastError_.
C11_UninitializedRefuses_AsStated ==
    [][ (calOp' \in ManagerOps /\ ~initialized_) =>
          /\ RefusedEarly
          /\ lastError_' = "EEPROM_NOT_READY"
      ]_vars

\* C11 amended: on a manager that is not initialized the four operations
\* return false without a store read, write or commit and leave the bounds
\* arrays as they were; saveCalibration, loadCalibration and
\* clearCalibration leave EEPROM_NOT_READY in lastError_, while
\* hasValidCalibration leaves lastError_ as it found it (the constructor's
\* INVALID_SENSOR_COUNT or INSUFFICIENT_SPACE, for one).
C11_UninitializedRefuses ==
    [][ (calOp' \in ManagerOps /\ ~initialized_) =>
          /\ RefusedEarly
          /\ calOp' # "hasValid" => lastError_' = "EEPROM_NOT_READY"
          /\ calOp' = "hasValid" => lastError_' = lastError_
      ]_vars

\* C11 witness: a manager refused at construction for its sensor count was
\* asked to clear the record over a valid stored calibration; it answered
\* false with EEPROM_NOT_READY and wrote nothing.
C11_Witness ==
    /\ calOp = "clear" /\ ~calRet
    /\ ~initialized_
    /\ sensorCount_ = 0
    /\ lastError_ = "EEPROM_NOT_READY"
    /\ nWrites = 0 /\ nCommits = 0
    /\ eeprom[1] = 254

\* C12: construction leaves the manager initialized, with lastError_
\* SUCCESS, exactly when 1 <= sensorCount <= MAX_SENSORS, startAddress +
\* sizeof(CalibrationData) <= eepromSize and the probe commit succeeds;
\* otherwise the manager is not initialized and lastError_ is
\* INVALID_SENSOR_COUNT, INSUFFICIENT_SPACE or EEPROM_NOT_READY for the first
\* of the three checks, in that order, that fails.
C12_ConstructionOutcome ==
    calOp = "construct" =>
        LET countOk == 1 <= sensorCount_ /\ sensorCount_ <= 8
            spaceOk == startAddress_ + 40 <= eepromSize_
            probed == nReads = 1 /\ nWrites = 1 /\ nCommits = 1
        IN /\ initialized_ <=> (countOk /\ spaceOk /\ probed /\ commitOk)
           /\ initialized_ => lastError_ = "SUCCESS"
           /\ ~countOk => lastError_ = "INVALID_SENSOR_COUNT"
           /\ (countOk /\ ~spaceOk) => lastError_ = "INSUFFICIENT_SPACE"
           /\ (countOk /\ spaceOk) => probed
           /\ (countOk /\ spaceOk /\ ~commitOk)
                 => lastError_ = "EEPROM_NOT_READY"
           /\ calRet = initialized_

\* C12 witness: a manager constructed for 9 sensors in 32 bytes, wrong on
\* both counts, reports the sensor count.
C12_Witness ==
    /\ calOp = "construct"
    /\ calOps >= 1
    /\ sensorCount_ = 9
    /\ eepromSize_ = 32
    /\ ~initialized_
    /\ lastError_ = "INVALID_SENSOR_COUNT"

\* C13: constructing a manager leaves every byte of the store as it was;
\* when the sensor count or the space is refused the store is not read,
\* written or committed; and a record that the new manager accepts before
\* its construction is one it accepts afterwards.
C13_ConstructionKeepsStore ==
    [][ calOp' = "construct" =>
          /\ eeprom' = eeprom
          /\ lastError_' \in {"INVALID_SENSOR_COUNT", "INSUFFICIENT_SPACE"}
                => (nReads' = 0 /\ nWrites' = 0 /\ nCommits' = 0)
          /\ lastError_' \in {"SUCCESS", "EEPROM_NOT_READY"}
                => (nReads' = 1 /\ nWrites' = 1 /\ nCommits' = 1)
          /\ LET before == Deserialize(RecordBytes(eeprom, startAddress_'))
                 after == Deserialize(RecordBytes(eeprom', startAddress_'))
             IN (/\ initialized_'
                 /\ validateCalibrationData(before, sensorCount_')
                        = "SUCCESS")
                => validateCalibrationData(after, sensorCount_') = "SUCCESS"
      ]_vars

\* C13 witness: a second manager was constructed at address 0 over a stored
\* record; its probe wrote the first byte of the magic back and the record
\* is still valid.
C13_Witness ==
    /\ calOp = "construct"
    /\ calOps >= 1
    /\ initialized_
    /\ startAddress_ = 0
    /\ nReads = 1 /\ nWrites = 1 /\ nCommits = 1
    /\ eeprom[1] = 254
    /\ StoredVerdict(eeprom) = "SUCCESS"

---------------------------------------------------------------------------
(* The life of a record, checked under SpecRecord *)

\* every byte of the manager's record range is 0
RecordIsZero ==
    \A k \in 1 .. RecordSize : RecordBytes(eeprom, startAddress_)[k] = 0

\* what clearCalibration itself leaves: zeros when it returns true, and
\* false with EEPROM_COMMIT_FAILED when the commit fails
ClearOutcome ==
    /\ (calOp = "clear" /\ calRet) => (RecordIsZero /\ lastError_ = "SUCCESS")
    /\ (calOp = "clear" /\ initialized_ /\ ~commitOk)
          => (~calRet /\ lastError_ = "EEPROM_COMMIT_FAILED")

SavedForOtherCount ==
    /\ StoredRecord.sensorCount # sensorCount_
    /\ validateCalibrationData(StoredRecord, StoredRecord.sensorCount)
          = "SUCCESS"

\* C15: a record saved by a manager configured for n sensors is rejected by
\* a manager configured for m # n sensors on the same store and address:
\* hasValidCalibration returns false, loadCalibration returns false with
\* SENSOR_COUNT_MISMATCH, and the destination bounds are as they were.
C15_SensorCountDrift ==
    [][ (initialized_ /\ SavedForOtherCount) =>
          /\ calOp' = "hasValid" => ~calRet'
          /\ calOp' = "load" =>
                /\ ~calRet'
                /\ lastError_' = "SENSOR_COUNT_MISMATCH"
                /\ qtrMinimum' = DestMinimum(destFresh')
                /\ qtrMaximum' = DestMaximum(destFresh')
      ]_vars

\* C15 witness: an 8-sensor manager saved its record, a 2-sensor manager
\* was constructed at the same address, and its load was refused with
\* SENSOR_COUNT_MISMATCH.
C15_Witness ==
    /\ calOp = "load" /\ ~calRet
    /\ calOps = MaxCalOps
    /\ initialized_
    /\ sensorCount_ = 2
    /\ StoredRecord.sensorCount = 8
    /\ SavedForOtherCount
    /\ lastError_ = "SENSOR_COUNT_MISMATCH"

---------------------------------------------------------------------------
(* What an accepted record guarantees, checked under SpecCal *)

\* C16: whenever loadCalibration or hasValidCalibration returns true, the
\* stored record has the expected magic and version and this manager's
\* sensor count, and minimum[i] < maximum[i] <= 4095 for every sensor
\* i < sensorCount_; after a loadCalibration that returned true the sensor
\* object's bounds satisfy the same inequality for every i < sensorCount_.
C16_AcceptedRecordIsSound ==
    /\ (calOp \in {"load", "hasValid"} /\ calRet) =>
          /\ StoredRecord.magic = 51966
          /\ StoredRecord.version = 2
          /\ StoredRecord.sensorCount = sensorCount_
          /\ \A i \in 0 .. (sensorCount_ - 1) :
                /\ StoredRecord.minimum[i] < StoredRecord.maximum[i]
                /\ StoredRecord.maximum[i] <= 4095
    /\ (calOp = "load" /\ calRet) =>
          \A i \in 0 .. (sensorCount_ - 1) :
             /\ qtrMinimum[i] < qtrMaximum[i]
             /\ qtrMaximum[i] <= 4095

\* C16 witness: a 2-sensor manager loaded its record into a new sensor
\* object: sensors 0 and 1 hold 100..3000, and slot 2, which is not active,
\* holds 0..0.
C16_Witness ==
    /\ calOp = "load" /\ calRet /\ destFresh
    /\ sensorCount_ = 2
    /\ qtrMinimum[0] = 100 /\ qtrMaximum[0] = 3000
    /\ qtrMinimum[1] = 100 /\ qtrMaximum[1] = 3000
    /\ qtrMinimum[2] = 0 /\ qtrMaximum[2] = 0

---------------------------------------------------------------------------
(* Gain setters, init and the base invariants, checked under SpecCtl *)

\* C17: on a PI or PID controller setKi and setGains leave integral at
\* exactly 0, whatever it was before and whatever the new gains are, the
\* new Ki being equal to the old one included.
C17_KiChangeResetsIntegral ==
    [][ (ctlOp' \in {"setKi", "setGains"} /\ variant \in {"PI", "PID"})
        => integral' = 0
      ]_vars

\* C17 witness: a PI controller with Kp set to 0 computed an output, which
\* is then its integral alone and is not 0, and setKi was called with the
\* Ki it already had; the integral is 0.
C17_Witness ==
    /\ ctlOp = "setKi"
    /\ ctlOps = MaxCtlOps
    /\ variant = "PI"
    /\ Kp = 0 /\ Ki = 5
    /\ min_output = -1023000 /\ max_output = 1023000
    /\ ctlRet # 0
    /\ output = ctlRet
    /\ integral = 0

\* the conditions of C18 on the state init() finds (and leaves: init()
\* assigns neither the gains, nor dt, nor the limits)
AnyGainNegative == Kp < 0 \/ Ki < 0 \/ Kd < 0
AllGainsZero == Kp = 0 /\ Ki = 0 /\ Kd = 0
BaseValidationFails == dt <= 0 \/ min_output >= max_output

C19_OutputBoundsOrdered_AsStated ==
    min_output < max_output

\* C19 amended: after construction and after any sequence of
\* setOutputLimits calls min_output <= max_output; setOutputLimits never
\* rejects a pair: it stores the lesser value given as min_output and the
\* greater as max_output, so an inverted pair is swapped, and a pair of
\* equal values is stored as it is, leaving min_output = max_output.
C19_OutputBoundsOrdered ==
    /\ [](min_output <= max_output)
    /\ [][ ctlOp' = "setOutputLimits" =>
              \E l \in LimitArgs :
                 /\ min_output' = (IF l[1] < l[2] THEN l[1] ELSE l[2])
                 /\ max_output' = (IF l[1] < l[2] THEN l[2] ELSE l[1])
                 /\ (min_output' = max_output') <=> (l[1] = l[2])
          ]_vars

\* C19 witness: setOutputLimits(500, 100) left the limits at 100 and 500,
\* on a controller that was constructed with an inverted pair too.
C19_Witness ==
    /\ ctlOp = "setOutputLimits"
    /\ dt = 1
    /\ min_output = 100000
    /\ max_output = 500000

\* C20: dt > 0 in every reachable state.  A controller constructed with
\* dt_ms = 0 has dt = 0.001 s and one constructed with dt_ms > 0 has
\* dt = dt_ms / 1000 s; setSampleTime(0) leaves dt as it was and
\* setSampleTime(ms) with ms > 0 sets dt to ms / 1000 s.  (dt is held in
\* thousandths of a second.)
C20_SampleTimePositive ==
    /\ [](dt > 0)
    /\ [](ctlOp = "ctor" =>
             \E a \in CtorArgs :
                /\ Kp = a.Kp
                /\ {min_output, max_output} = {a.min_output, a.max_output}
                /\ dt = (IF a.dt_ms = 0 THEN 1 ELSE a.dt_ms))
    /\ [][ ctlOp' = "setSampleTime" =>
              \E ms \in SampleTimeArgs :
                 dt' = (IF ms = 0 THEN dt ELSE ms)
          ]_vars

\* C20 witness: a controller constructed with dt_ms = 0 was then given
\* setSampleTime(0): dt is still the 1 ms the constructor chose.
C20_Witness ==
    /\ ctlOp = "setSampleTime"
    /\ ctlOps = 1
    /\ dt = 1

---------------------------------------------------------------------------
(* The control laws and the setters, step by step, checked under SpecCtl *)

\* clamp(x, lo, hi), written out
Clamp(x, lo, hi) == IF x > hi THEN hi ELSE IF x < lo THEN lo ELSE x

\* C21: setOutputLimits(a, b) stores the lesser of a and b as min_output and
\* the greater as max_output and replaces the stored output by the previous
\* output clamped to the new limits, so that the output lies within them;
\* gains, setpoint, dt, integral, prev_error and anti_windup are unchanged.
C21_SetOutputLimitsReclamps ==
    [][ ctlOp' = "setOutputLimits" =>
          /\ \E l \in LimitArgs :
                /\ min_output' = (IF l[1] < l[2] THEN l[1] ELSE l[2])
                /\ max_output' = (IF l[1] < l[2] THEN l[2] ELSE l[1])
          /\ output' = Clamp(output, min_output', max_output')
          /\ min_output' <= output' /\ output' <= max_output'
          /\ UNCHANGED <<variant, Kp, Ki, Kd, setpoint, dt, integral,
                         prev_error, anti_windup>>
      ]_vars

\* C21 witness: a PI controller had computed an output above 10; the limits
\* were then set to +-10 and the stored output came down to 10, the
\* integral staying as it was.
C21_Witness ==
    /\ ctlOp = "setOutputLimits"
    /\ variant = "PI"
    /\ min_output = -10000 /\ max_output = 10000
    /\ ctlRet > 10000
    /\ output = 10000
    /\ integral # 0

\* C22: the P controller's compute(e) returns Kp * e clamped to the limits,
\* for every e and whatever was computed before; a compute that follows a
\* compute with the same e, nothing called in between, returns the same
\* value.
C22_PComputeIsStateless ==
    [][ (ctlOp' = "compute" /\ variant = "P") =>
          /\ ctlRet' = Clamp(Kp * (ctlArg' \div 10), min_output, max_output)
          /\ output' = ctlRet'
          /\ UNCHANGED <<Kp, dt, min_output, max_output, setpoint>>
          /\ (ctlOp = "compute" /\ ctlArg' = ctlArg) => ctlRet' = ctlRet
      ]_vars

\* C22 witness: a P controller with Kp = 2 was given the error 4 in its
\* third call and returned 8.
C22_Witness ==
    /\ variant = "P"
    /\ ctlOp = "compute"
    /\ ctlOps = 3
    /\ Kp = 20
    /\ ctlArg = 4000
    /\ ctlRet = 8000
    /\ output = 8000

\* C23: when a PD or PID controller computes with the error it was given
\* in the compute just before, the derivative contributes nothing: the PD
\* controller returns Kp * e clamped, and the PID controller returns
\* Kp * e + integral clamped, the integral being the updated one.
C23_ConstantErrorNoDerivative ==
    [][ (ctlOp = "compute" /\ ctlOp' = "compute" /\ ctlArg' = ctlArg) =>
          /\ variant = "PD" =>
                ctlRet' = Clamp(Kp * (ctlArg' \div 10), min_output, max_output)
          /\ variant = "PID" =>
                ctlRet' = Clamp((Kp * (ctlArg' \div 10)) + integral',
                                min_output, max_output)
      ]_vars

\* C23 witness: a PD controller with Kp = 2 and Kd = 0.1 was given the
\* error 4 twice; the first compute returned more than 8 (or the limit),
\* the second returned 8.
C23_Witness ==
    /\ variant = "PD"
    /\ ctlOp = "compute"
    /\ ctlOps = 2
    /\ Kp = 20 /\ Kd = 1
    /\ ctlArg = 4000
    /\ prev_error = 4000
    /\ ctlRet = 8000

C25_PIDStep ==
    [][ (ctlOp' = "compute" /\ variant = "PID") =>
          LET e == ctlArg'
              i_new == Clamp(integral + ((Ki * (e \div 10) * dt) \div 1000),
                             -anti_windup, anti_windup)
              rate == ((e - prev_error) * 1000) \div dt
          IN /\ integral' = i_new
             /\ prev_error' = e
             /\ ctlRet' = Clamp((Kp * (e \div 10)) + i_new + (Kd * (rate \div 10)),
                                min_output, max_output)
             /\ output' = ctlRet'
             /\ ( /\ Kp = 20 /\ Ki = 5 /\ Kd = 1 /\ dt = 10
                  /\ min_output = -1023000 /\ max_output = 1023000
                  /\ anti_windup = 1023000
                  /\ integral = 0 /\ prev_error = 0
                  /\ e = 500000 )
                => (integral' = 2500 /\ ctlRet' = 1023000)
      ]_vars

\* C25 witness: the PID controller of the example has computed the error 500
\* once from construction: the integral is 2.5 and the result 1023.
C25_Witness ==
    /\ variant = "PID"
    /\ ctlOp = "compute" /\ ctlOps = 1 /\ ctlArg = 500000
    /\ Kp = 20 /\ Ki = 5 /\ Kd = 1 /\ dt = 10
    /\ min_output = -1023000 /\ max_output = 1023000
    /\ integral = 2500 /\ prev_error = 500000
    /\ ctlRet = 1023000

\* C26: a PI compute(e) leaves integral = clamp(integral + Ki*e*dt,
\* -anti_windup, anti_windup) and returns and stores clamp(Kp*e + integral,
\* min_output, max_output) with the new integral.  The integral is updated
\* whether or not the output is at a limit: a compute whose result is at a
\* limit still moves the integral by Ki*e*dt as long as the sum stays within
\* the anti-windup limit.
C26_PIStep ==
    [][ (ctlOp' = "compute" /\ variant = "PI") =>
          LET e == ctlArg'
              step == (Ki * (e \div 10) * dt) \div 1000
              i_new == Clamp(integral + step, -anti_windup, anti_windup)
          IN /\ integral' = i_new
             /\ ctlRet' = Clamp((Kp * (e \div 10)) + i_new, min_output, max_output)
             /\ output' = ctlRet'
             /\ ( /\ ctlRet' \in {min_output, max_output}
                  /\ integral + step <= anti_windup
                  /\ integral + step >= -anti_windup )
                => integral' = integral + step
      ]_vars

\* C26 witness: a PI controller with Kp = 2, Ki = 0.5, dt = 10 ms, the limits
\* 100 and 500 and the anti-windup limit 100 has computed the error 500
\* twice; both results were the upper limit 500 and the integral went from
\* 2.5 to 5.
C26_Witness ==
    /\ variant = "PI"
    /\ ctlOp = "compute" /\ ctlOps = 2 /\ ctlArg = 500000
    /\ Kp = 20 /\ Ki = 5 /\ dt = 10
    /\ min_output = 100000 /\ max_output = 500000 /\ anti_windup = 100000
    /\ ctlRet = max_output
    /\ integral = 5000

\* C27: a PD compute(e) returns and stores clamp(Kp*e + Kd*(e - prev_error)/dt,
\* min_output, max_output), prev_error being the error of the compute before
\* (0 after construction or reset), and leaves prev_error = e whether or not
\* the result is at a limit; setKp, setKd and setGains of a PD controller
\* leave prev_error unchanged.
C27_PDStep ==
    [][ variant = "PD" =>
          /\ ctlOp' = "compute" =>
                LET e == ctlArg'
                    rate == ((e - prev_error) * 1000) \div dt
                IN /\ ctlRet' = Clamp((Kp * (e \div 10)) + (Kd * (rate \div 10)),
                                      min_output, max_output)
                   /\ output' = ctlRet'
                   /\ prev_error' = e
          /\ ctlOp' = "reset" => prev_error' = 0
          /\ ctlOp' \in {"setKp", "setKd", "setGains"} =>
                prev_error' = prev_error
      ]_vars

\* C27 witness: a PD controller with the limits -1023 and 1023 computed the
\* error 500, the result was the upper limit and prev_error is 500; then
\* setGains was called and prev_error is still 500.
C27_Witness ==
    /\ variant = "PD"
    /\ ctlOp = "setGains" /\ ctlOps = 2
    /\ max_output = 1023000 /\ output = max_output
    /\ ctlArg = 500000 /\ prev_error = 500000

\* what compute(e) returns and leaves in integral and prev_error when it is
\* the first compute of a controller with the present parameters
FirstCompute(e) ==
    LET p_term == Kp * (e \div 10)
        i_term == IF variant \in {"PI", "PID"}
                  THEN Clamp((Ki * (e \div 10) * dt) \div 1000,
                             -anti_windup, anti_windup)
                  ELSE 0
        d_term == IF variant \in {"PD", "PID"}
                  THEN Kd * (((e * 1000) \div dt) \div 10)
                  ELSE 0
    IN <<Clamp(p_term + i_term + d_term, min_output, max_output),
         i_term,
         IF variant \in {"PD", "PID"} THEN e ELSE 0>>

\* C28: reset() of any of the four controllers leaves output, integral and
\* prev_error at 0 and leaves the gains, the setpoint, dt, the output limits
\* and anti_windup as they were; a reset directly after a reset changes
\* nothing; and a compute(e) directly after a reset returns, and leaves in
\* integral and prev_error, what the first compute(e) of a controller
\* returns and leaves that was constructed with the same parameters and
\* initialized, so that the two controllers agree from then on.
C28_ResetIsFreshStart ==
    [][ /\ ctlOp' = "reset" =>
              /\ output' = 0 /\ integral' = 0 /\ prev_error' = 0
              /\ UNCHANGED <<variant, Kp, Ki, Kd, dt, min_output, max_output,
                             setpoint, anti_windup>>
        /\ (ctlOp = "reset" /\ ctlOp' = "reset") => UNCHANGED ctlState
        /\ (ctlOp' = "init" /\ initOk') =>
              (output' = 0 /\ integral' = 0 /\ prev_error' = 0)
        /\ ( /\ ctlOp = "reset" \/ (ctlOp = "init" /\ initOk)
             /\ ctlOp' = "compute" )
           => <<ctlRet', integral', prev_error'>> = FirstCompute(ctlArg')
      ]_vars

\* C28 witness: the PID controller of the example computed the error 500,
\* which returned 1023 and left the integral 2.5 and prev_error 500, and was
\* then reset: output, integral and prev_error are 0.
C28_Witness ==
    /\ variant = "PID"
    /\ ctlOp = "reset" /\ ctlOps = 2
    /\ Kp = 20 /\ Ki = 5 /\ Kd = 1 /\ dt = 10
    /\ ctlArg = 500000 /\ ctlRet = 1023000
    /\ output = 0 /\ integral = 0 /\ prev_error = 0

\* C29: setAntiWindupLimit(l) of a PI controller leaves anti_windup = |l|
\* whatever l is, a limit above 2 * |max_output| included, and leaves the
\* integral clamped to [-|l|, |l|]; the gains, the output, the setpoint, dt
\* and the output limits are unchanged.
C29_PIAntiWindupLimit ==
    [][ (ctlOp' = "setAntiWindupLimit" /\ variant = "PI") =>
          LET l == IF ctlArg' < 0 THEN -ctlArg' ELSE ctlArg'
          IN /\ anti_windup' = l
             /\ integral' = Clamp(integral, -l, l)
             /\ UNCHANGED <<variant, Kp, Ki, Kd, dt, min_output, max_output,
                            setpoint, output, prev_error>>
      ]_vars

\* C29 witness: a PI controller whose compute returned 500 and left the
\* integral at 500 was given setAntiWindupLimit(-50): the limit is 50 and
\* the integral is 50.
C29_Witness ==
    /\ variant = "PI"
    /\ ctlOp = "setAntiWindupLimit" /\ ctlOps = 2
    /\ ctlArg = -50000 /\ ctlRet = 500000
    /\ anti_windup = 50000 /\ integral = 50000

\* C30: setAntiWindupLimit(l) of a PID controller leaves anti_windup equal
\* to the lesser of |l| and |max_output| and leaves the integral clamped to
\* the new range; setOutputLimits leaves anti_windup as it was, so that
\* anti_windup may afterwards exceed |max_output|.
C30_PIDAntiWindupLimit ==
    [][ variant = "PID" =>
          /\ ctlOp' = "setAntiWindupLimit" =>
                LET l == IF ctlArg' < 0 THEN -ctlArg' ELSE ctlArg'
                    m == IF max_output < 0 THEN -max_output ELSE max_output
                    capped == IF l > m THEN m ELSE l
                IN /\ anti_windup' = capped
                   /\ integral' = Clamp(integral, -capped, capped)
                   /\ UNCHANGED <<min_output, max_output, output>>
          /\ ctlOp' = "setOutputLimits" => anti_windup' = anti_windup
      ]_vars

\* C30 witness: a PID controller with the limits -1023 and 1023 was given
\* setAntiWindupLimit(5000), which left the limit 1023, and then
\* setOutputLimits(-10, 10): the anti-windup limit is still 1023.
C30_Witness ==
    /\ variant = "PID"
    /\ ctlOp = "setOutputLimits" /\ ctlOps = 2
    /\ ctlArg = 5000000
    /\ max_output = 10000
    /\ anti_windup = 1023000

---------------------------------------------------------------------------
(* The record's validation and construction in detail *)

\* the record the store holds at the manager's address
StoredData == Deserialize(RecordBytes(eeprom, startAddress_))

\* the stored record passes the magic, version, sensor-count and checksum
\* layers for this manager
PassesStructure ==
    /\ StoredData.magic = CALIBRATION_MAGIC
    /\ StoredData.version = CALIBRATION_VERSION
    /\ StoredData.sensorCount = sensorCount_
    /\ StoredData.checksum = calculateChecksum(StoredData)

\* the sensors below sensorCount_ whose stored range is refused
Offenders ==
    {i \in 0 .. (sensorCount_ - 1) :
        \/ StoredData.minimum[i] >= StoredData.maximum[i]
        \/ StoredData.maximum[i] > 4095}

FirstOffender == CHOOSE i \in Offenders : \A j \in Offenders : i <= j

\* C31: when the stored record passes layers 1 to 4, loadCalibration reports
\* SUCCESS if no sensor below sensorCount_ has a refused range, and otherwise
\* the error of the lowest such sensor alone: INVALID_CALIBRATION_RANGE if
\* its minimum >= maximum (its maximum being above 4095 or not), else
\* ADC_RANGE_EXCEEDED.  The slots at sensorCount_ and above have no part in
\* the answer.
C31_SemanticLayerOrder ==
    [][ (calOp' = "load" /\ initialized_ /\ PassesStructure) =>
          lastError_' =
             IF Offenders = {} THEN "SUCCESS"
             ELSE IF StoredData.minimum[FirstOffender]
                        >= StoredData.maximum[FirstOffender]
                  THEN "INVALID_CALIBRATION_RANGE"
                  ELSE "ADC_RANGE_EXCEEDED"
      ]_vars

\* C31 witness: the stored record has sensor 0 with the range 200..5000 and
\* sensor 1 with minimum 4095 and maximum 0; loadCalibration reported
\* ADC_RANGE_EXCEEDED, the error of sensor 0.
C31_Witness ==
    /\ calOp = "load"
    /\ initialized_
    /\ PassesStructure
    /\ StoredData.minimum[0] = 200 /\ StoredData.maximum[0] = 5000
    /\ StoredData.minimum[1] = 4095 /\ StoredData.maximum[1] = 0
    /\ lastError_ = "ADC_RANGE_EXCEEDED"

\* the source bounds saveCalibration copies: those of the sensors below
\* sensorCount_
ActiveBounds ==
    [i \in 0 .. (sensorCount_ - 1) |-> <<qtrMinimum[i], qtrMaximum[i]>>]

\* the record for n sensors with the bounds b[0] .. b[n - 1], every other
\* slot 0, and its checksum
RecordOf(n, b) ==
    LET d == [magic |-> CALIBRATION_MAGIC,
              version |-> CALIBRATION_VERSION,
              sensorCount |-> n,
              minimum |-> [i \in Slots |-> IF i < n THEN b[i][1] ELSE 0],
              maximum |-> [i \in Slots |-> IF i < n THEN b[i][2] ELSE 0],
              checksum |-> <<0, 0>>]
    IN [d EXCEPT !.checksum = calculateChecksum(d)]

\* C32: whenever saveCalibration writes, the bytes it leaves at the
\* manager's address are those of the record determined by sensorCount_ and
\* the source bounds of the sensors below sensorCount_ alone, with 0 in
\* every minimum and maximum slot at sensorCount_ and above; neither the
\* bytes the store held before nor the source values at sensorCount_ and
\* above have a part in them, and the bytes outside the record stay.
C32_SavedRecordDeterministic ==
    [][ (calOp' = "save" /\ nWrites' = RecordSize) =>
          /\ RecordBytes(eeprom', startAddress_)
                = Serialize(RecordOf(sensorCount_, ActiveBounds))
          /\ \A i \in Slots :
                i >= sensorCount_ =>
                   /\ Deserialize(RecordBytes(eeprom', startAddress_)).minimum[i] = 0
                   /\ Deserialize(RecordBytes(eeprom', startAddress_)).maximum[i] = 0
          /\ \A a \in 1 .. EEPROM_SIZE :
                (a <= startAddress_ \/ a > startAddress_ + RecordSize) =>
                   eeprom'[a] = eeprom[a]
      ]_vars

\* C32 witness: a manager of 2 sensors saved from a sensor object whose
\* sensor 7 reads 200..5000; the save succeeded and slot 7 of the stored
\* record is 0.
C32_Witness ==
    /\ calOp = "save" /\ calRet
    /\ nWrites = RecordSize
    /\ sensorCount_ = 2
    /\ qtrMinimum[7] = 200 /\ qtrMaximum[7] = 5000
    /\ StoredData.minimum[7] = 0 /\ StoredData.maximum[7] = 0
    /\ StoredData.minimum[0] = 100 /\ StoredData.maximum[0] = 3000

\* the sensors below sensorCount_ whose source range is valid
ValidSources ==
    {i \in 0 .. (sensorCount_ - 1) :
        qtrMinimum[i] < qtrMaximum[i] /\ qtrMaximum[i] <= 4095}

C34_ReturnMatchesLastError ==
    [][ calOp' \in {"save", "load", "clear"} =>
          (calRet' <=> lastError_' = "SUCCESS")
      ]_vars

\* C34 witness: a manager whose construction had left SUCCESS was asked to
\* load first thing, the stored record failed its checksum, and the call
\* returned false with CHECKSUM_FAILED.
C34_Witness ==
    /\ calOp = "load" /\ calOps = 1
    /\ initialized_
    /\ ~calRet
    /\ lastError_ = "CHECKSUM_FAILED"

\* C35: saveCalibration, loadCalibration, hasValidCalibration and
\* clearCalibration leave initialized_, sensorCount_, startAddress_ and
\* eepromSize_ as the constructor set them, whether they succeed or fail at
\* the commit or at the validation.
C35_ConfigurationIsFixed ==
    [][ calOp' \in {"save", "load", "hasValid", "clear"} =>
          UNCHANGED <<initialized_, sensorCount_, startAddress_, eepromSize_>>
      ]_vars

\* C35 witness: clearCalibration on an initialized manager failed at the
\* commit; the manager is still initialized.
C35_Witness ==
    /\ calOp = "clear"
    /\ ~calRet /\ ~commitOk
    /\ nCommits = 1
    /\ lastError_ = "EEPROM_COMMIT_FAILED"
    /\ initialized_

---------------------------------------------------------------------------
(* init, reset and the stored output *)

\* C36: an init() that returns true leaves setpoint = 0 and output = 0,
\* whatever setpoint was set before; reset() leaves the setpoint as it was;
\* and an init() that passes the base checks (dt > 0, min_output <
\* max_output) and returns false at the gain checks of its class has set
\* output and setpoint to 0 and has left integral and prev_error as they
\* were.
C36_InitZeroesSetpoint ==
    [][ /\ (ctlOp' = "init" /\ initOk') =>
              (setpoint' = 0 /\ output' = 0)
        /\ ctlOp' = "reset" => setpoint' = setpoint
        /\ (ctlOp' = "init" /\ ~initOk' /\ dt > 0 /\ min_output < max_output) =>
              /\ setpoint' = 0 /\ output' = 0
              /\ integral' = integral
              /\ prev_error' = prev_error
      ]_vars

\* C36 witness: a PI controller computed a nonzero output, which left a
\* nonzero integral, was given a negative Kp and then init(), which
\* returned false: the output is 0 and the integral is still there.
C36_Witness ==
    /\ variant = "PI"
    /\ ctlOp = "init" /\ ctlOps = 3
    /\ ~initOk
    /\ Kp < 0
    /\ ctlRet # 0
    /\ output = 0 /\ setpoint = 0
    /\ integral # 0

\* C37 as stated: once init() has returned true, the stored output lies
\* within [min_output, max_output] in every state, right after init() and
\* reset() included.
C37_StoredOutputWithinLimits_AsStated ==
    initOk => (min_output <= output /\ output <= max_output)

\* C37 amended: the stored output is within [min_output, max_output] after
\* every compute and every setOutputLimits, and in every state it is either
\* within the limits or 0; right after an init() that returned true and
\* right after reset() it is 0, which is outside the limits when the range
\* does not contain 0.
C37_StoredOutputWithinLimitsOrZero ==
    /\ output = 0 \/ (min_output <= output /\ output <= max_output)
    /\ ctlOp \in {"compute", "setOutputLimits"} =>
          (min_output <= output /\ output <= max_output)
    /\ (ctlOp = "reset" \/ (ctlOp = "init" /\ initOk)) => output = 0

\* C37 witness: a controller with the limits 100 and 500 computed an output
\* and was then initialized with success: its stored output is 0, below the
\* lower limit.
C37_Witness ==
    /\ ctlOp = "init" /\ initOk
    /\ min_output = 100000 /\ max_output = 500000
    /\ ctlRet >= min_output
    /\ output = 0

---------------------------------------------------------------------------
(* The checksum, checked under SpecSum *)

\* the fields of a record the checksum is taken over
SummedFields(d) ==
    <<d.magic, d.version, d.sensorCount>>
    \o ([i \in 1 .. MAX_SENSORS |-> d.minimum[i - 1]]
        \o [i \in 1 .. MAX_SENSORS |-> d.maximum[i - 1]])

\* the number of those fields in which two records differ
Differences(d, e) ==
    Cardinality({k \in 1 .. (3 + (2 * MAX_SENSORS)) :
                    SummedFields(d)[k] # SummedFields(e)[k]})

\* C38: when the stored record changes in exactly one of magic, version,
\* sensorCount and the minimum and maximum slots, a slot at sensorCount_ or
\* above included, calculateChecksum gives a different value for the record
\* after the change than for the record before; when only the stored
\* checksum field changes, calculateChecksum gives the same value.
C38_ChecksumSeparatesOneField ==
    [][ calOp' = "rewrite" =>
          /\ Differences(StoredData, StoredData') = 1 =>
                calculateChecksum(StoredData') # calculateChecksum(StoredData)
          /\ Differences(StoredData, StoredData') = 0 =>
                calculateChecksum(StoredData') = calculateChecksum(StoredData)
      ]_vars

\* C38 witness: the maximum slot of sensor 7 of a record saved by a manager
\* of 2 sensors came back as 1, and the load that followed was refused with
\* CHECKSUM_FAILED.
C38_Witness ==
    /\ sensorCount_ = 2
    /\ calOp = "load" /\ ~calRet
    /\ StoredData.magic = CALIBRATION_MAGIC
    /\ StoredData.sensorCount = 2
    /\ StoredData.maximum[7] = 1
    /\ StoredData.minimum[7] = 0
    /\ lastError_ = "CHECKSUM_FAILED"


(***************************************************************************)
(* main.ino: loop() and the two interrupt handlers                         *)
(***************************************************************************)
\* loop() runs only once setup() has passed initializeAllSystems(): the QTR
\* arrays are allocated (qtrMemoryAllocated is true for good) and the manager
\* was constructed with (SENSOR_COUNT, true, EEPROM_SIZE, 0) and is initialized.
\* The manager's calls are taken by what they leave in the store, in
\* lastError_ and in the sensor arrays.

\* EEPROM contents setup() may find: erased, a good record, a damaged one
LoopStores ==
    { Filled(255),
      WriteBytes(Filled(255), 0, Serialize(GoodRecord(MAX_SENSORS))),
      WriteBytes(Filled(255), 0,
                 Serialize([GoodRecord(MAX_SENSORS) EXCEPT !.version = 1])) }

\* what the three seconds of qtr.calibrate() may leave in the arrays that
\* performCalibration reset to (4095, 0)
LoopRuns ==
    { Readings(RangeA, RangeA, 0),
      Readings(RangeReset, RangeReset, 0),
      Readings(RangeA, RangeReset, 0) }

\* clearCalibration() of an initialized manager: the store and lastError_
ClearEffect(ok) ==
    [store |-> WriteBytes(eeprom, startAddress_, ZeroBytes),
     error |-> IF ok THEN "SUCCESS" ELSE "EEPROM_COMMIT_FAILED"]

\* saveCalibration(qtr) of an initialized manager: the store and lastError_
SaveEffect(qmin, qmax, ok) ==
    IF ~hasValidData(qmin, qmax, sensorCount_)
    THEN [store |-> eeprom, error |-> "NO_VALID_DATA"]
    ELSE LET calData == BuildCalData(qmin, qmax, sensorCount_)
             written == WriteBytes(eeprom, startAddress_, Serialize(calData))
             verifyData == Deserialize(RecordBytes(written, startAddress_))
             verified == /\ loadCalibrationData(written) = "SUCCESS"
                         /\ verifyData.magic = calData.magic
                         /\ verifyData.version = calData.version
                         /\ verifyData.sensorCount = calData.sensorCount
                         /\ verifyData.checksum = calData.checksum
         IN [store |-> written, error |-> SaveError(ok, verified)]

\* what a loop step leaves alone: the controller, the manager's
\* configuration and the observers of the component specifications
LoopFrame ==
    UNCHANGED <<ctlVars, sensorCount_, eepromSize_, startAddress_,
                initialized_, callVars>>

\* handleCalibInterrupt, past its debounce test: the flag is set.  The
\* observer may start following this press when it follows none.
handleCalibInterrupt(follow) ==
    /\ calibRequested' = TRUE
    /\ IF follow /\ calibStage = "none"
       THEN calibStage' = "pressed" /\ calibPressAt' = pc
       ELSE UNCHANGED <<calibStage, calibPressAt>>
    /\ UNCHANGED <<ctlVars, calVars, startRequested, calibrationLoaded,
                   running, pc, startStage>>

\* handleStartInterrupt, past its debounce test
handleStartInterrupt(follow) ==
    /\ startRequested' = TRUE
    /\ startStage' = (IF follow /\ startStage = "none" THEN "pressed"
                      ELSE startStage)
    /\ UNCHANGED <<ctlVars, calVars, calibRequested, calibrationLoaded,
                   running, pc, calibStage, calibPressAt>>

\* no serial input, or 's' (displayStoredCalibration only reads), or 'h'
loop_serialOther ==
    /\ pc = "serial"
    /\ pc' = "testCalib"
    /\ LoopFrame
    /\ UNCHANGED <<lastError_, eeprom, qtrVars, calibRequested,
                   startRequested, calibrationLoaded, running, calibStage,
                   calibPressAt, startStage>>

\* 'c': if (calibManager->clearCalibration()) calibrationLoaded = false;
loop_serialClear(ok) ==
    /\ pc = "serial"
    /\ pc' = "testCalib"
    /\ eeprom' = ClearEffect(ok).store
    /\ lastError_' = ClearEffect(ok).error
    /\ calibrationLoaded' = (IF ok THEN FALSE ELSE calibrationLoaded)
    /\ LoopFrame
    /\ UNCHANGED <<qtrVars, calibRequested, startRequested, running,
                   calibStage, calibPressAt, startStage>>

\* if (calibRequested)
loop_testCalib ==
    /\ pc = "testCalib"
    /\ pc' = (IF calibRequested THEN "clearCalib" ELSE "testStart")
    /\ LoopFrame
    /\ UNCHANGED <<lastError_, eeprom, qtrVars, calibRequested,
                   startRequested, calibrationLoaded, running, calibStage,
                   calibPressAt, startStage>>

\* calibRequested = false;
loop_clearCalib ==
    /\ pc = "clearCalib"
    /\ pc' = "stopRunning"
    /\ calibRequested' = FALSE
    /\ calibStage' = (IF calibStage = "pressed" THEN "cleared" ELSE calibStage)
    /\ LoopFrame
    /\ UNCHANGED <<lastError_, eeprom, qtrVars, startRequested,
                   calibrationLoaded, running, calibPressAt, startStage>>

\* running = false;
loop_stopRunning ==
    /\ pc = "stopRunning"
    /\ pc' = "calibrate"
    /\ running' = FALSE
    /\ calibStage' = (IF calibStage = "cleared" THEN "stopped" ELSE calibStage)
    /\ LoopFrame
    /\ UNCHANGED <<lastError_, eeprom, qtrVars, calibRequested,
                   startRequested, calibrationLoaded, calibPressAt,
                   startStage>>

\* performCalibration() is entered: the stored record is cleared (the answer
\* is not looked at) and the arrays are reset to (4095, 0)
performCalibration_begin(ok) ==
    /\ pc = "calibrate"
    /\ pc' = "calibrating"
    /\ eeprom' = ClearEffect(ok).store
    /\ lastError_' = ClearEffect(ok).error
    /\ qtrMinimum' = [i \in Slots |-> IF i < MAX_SENSORS THEN 4095
                                      ELSE qtrMinimum[i]]
    /\ qtrMaximum' = [i \in Slots |-> IF i < MAX_SENSORS THEN 0
                                      ELSE qtrMaximum[i]]
    /\ calibStage' = (IF calibStage = "stopped" THEN "served" ELSE calibStage)
    /\ LoopFrame
    /\ UNCHANGED <<calibRequested, startRequested, calibrationLoaded,
                   running, calibPressAt, startStage>>

\* faulty variant: the request flag is cleared once more when the calibration is over
performCalibration_end_ClearsRequest(r, ok) ==
    /\ pc = "calibrating"
    /\ pc' = "testStart"
    /\ qtrMinimum' = r.lo
    /\ qtrMaximum' = r.hi
    /\ eeprom' = SaveEffect(r.lo, r.hi, ok).store
    /\ lastError_' = SaveEffect(r.lo, r.hi, ok).error
    /\ calibrationLoaded' = TRUE
    /\ calibRequested' = FALSE
    /\ calibStage' = (IF calibStage = "served" THEN "none" ELSE calibStage)
    /\ calibPressAt' = (IF calibStage = "served" THEN "none"
                        ELSE calibPressAt)
    /\ LoopFrame
    /\ UNCHANGED <<startRequested, running, startStage>>

\* the countdown and the calibrate() loop are over: the arrays hold the
\* readings, saveCalibration(qtr) is called, and calibrationLoaded is set
\* whatever it answered
performCalibration_end(r, ok) ==
    /\ pc = "calibrating"
    /\ pc' = "testStart"
    /\ qtrMinimum' = r.lo
    /\ qtrMaximum' = r.hi
    /\ eeprom' = SaveEffect(r.lo, r.hi, ok).store
    /\ lastError_' = SaveEffect(r.lo, r.hi, ok).error
    /\ calibrationLoaded' = TRUE
    /\ calibStage' = (IF calibStage = "served" THEN "none" ELSE calibStage)
    /\ calibPressAt' = (IF calibStage = "served" THEN "none"
                        ELSE calibPressAt)
    /\ LoopFrame
    /\ UNCHANGED <<calibRequested, startRequested, running, startStage>>

\* if (startRequested)
loop_testStart ==
    /\ pc = "testStart"
    /\ pc' = (IF startRequested THEN "clearStart" ELSE "follow")
    /\ LoopFrame
    /\ UNCHANGED <<lastError_, eeprom, qtrVars, calibRequested,
                   startRequested, calibrationLoaded, running, calibStage,
                   calibPressAt, startStage>>

\* startRequested = false;
loop_clearStart ==
    /\ pc = "clearStart"
    /\ pc' = "toggle"
    /\ startRequested' = FALSE
    /\ startStage' = (IF startStage = "pressed" THEN "consumed"
                      ELSE startStage)
    /\ LoopFrame
    /\ UNCHANGED <<lastError_, eeprom, qtrVars, calibRequested,
                   calibrationLoaded, running, calibStage, calibPressAt>>

\* faulty variant: the start button starts whether or not a calibration is loaded
loop_toggle_StartsUncalibrated ==
    /\ pc = "toggle"
    /\ pc' = "follow"
    /\ running' = ~running
    /\ startStage' = (IF startStage = "consumed" THEN "none" ELSE startStage)
    /\ LoopFrame
    /\ UNCHANGED <<lastError_, eeprom, qtrVars, calibRequested,
                   startRequested, calibrationLoaded, calibStage,
                   calibPressAt>>

\* if (!running) { if (!calibrationLoaded) warn; else running = true; }
\* else running = false;
loop_toggle ==
    /\ pc = "toggle"
    /\ pc' = "follow"
    /\ running' = (IF ~running THEN calibrationLoaded ELSE FALSE)
    /\ startStage' = (IF startStage = "consumed" THEN "none" ELSE startStage)
    /\ LoopFrame
    /\ UNCHANGED <<lastError_, eeprom, qtrVars, calibRequested,
                   startRequested, calibrationLoaded, calibStage,
                   calibPressAt>>

\* if (running) the line is read and printed; delay(50); loop() returns and
\* is called again
loop_follow ==
    /\ pc = "follow"
    /\ pc' = "serial"
    /\ LoopFrame
    /\ UNCHANGED <<lastError_, eeprom, qtrVars, calibRequested,
                   startRequested, calibrationLoaded, running, calibStage,
                   calibPressAt, startStage>>

\* setup() is over.  The handlers were attached before loadSavedCalibration,
\* so a press may already be waiting.
InitLoop ==
    /\ CtlIdle
    /\ sensorCount_ = MAX_SENSORS
    /\ eepromSize_ = EEPROM_SIZE
    /\ startAddress_ = 0
    /\ initialized_ = TRUE
    /\ lastError_ = "SUCCESS"
    /\ eeprom \in LoopStores
    /\ LET found == loadCalibrationData(eeprom)
           stored == Deserialize(RecordBytes(eeprom, 0))
       IN /\ calibrationLoaded = (found = "SUCCESS")
          /\ qtrMinimum = LoadInto([i \in Slots |-> 0], stored.minimum,
                                   MAX_SENSORS, found)
          /\ qtrMaximum = LoadInto([i \in Slots |-> 4095], stored.maximum,
                                   MAX_SENSORS, found)
          /\ calOp = (IF found = "SUCCESS" THEN "load" ELSE "hasValid")
          /\ calRet = (found = "SUCCESS")
    /\ commitOk = TRUE
    /\ nReads = RecordSize
    /\ nWrites = 0
    /\ nCommits = 0
    /\ destFresh = FALSE
    /\ flipped = -1
    /\ cleared = FALSE
    /\ calOps = 0
    /\ calibRequested \in BOOLEAN
    /\ startRequested \in BOOLEAN
    /\ running = FALSE
    /\ pc = "serial"
    /\ calibStage \in (IF calibRequested THEN {"none", "pressed"}
                       ELSE {"none"})
    /\ calibPressAt = (IF calibStage = "pressed" THEN "setup" ELSE "none")
    /\ startStage \in (IF startRequested THEN {"none", "pressed"}
                       ELSE {"none"})

\* the steps of loop(), which the Arduino core calls again and again
LoopStep ==
    \/ loop_serialOther
    \/ \E ok \in BOOLEAN : loop_serialClear(ok)
    \/ loop_testCalib
    \/ loop_clearCalib
    \/ loop_stopRunning
    \/ \E ok \in BOOLEAN : performCalibration_begin(ok)
    \/ \E r \in LoopRuns, ok \in BOOLEAN : performCalibration_end(r, ok)
    \/ loop_testStart
    \/ loop_clearStart
    \/ loop_toggle
    \/ loop_follow

NextLoop ==
    \/ LoopStep
    \/ \E follow \in BOOLEAN : handleCalibInterrupt(follow)
    \/ \E follow \in BOOLEAN : handleStartInterrupt(follow)

SpecLoop == InitLoop /\ [][NextLoop]_vars

\* the statements loop() can stand at
LoopLabels ==
    {"serial", "testCalib", "clearCalib", "stopRunning", "calibrate",
     "calibrating", "testStart", "clearStart", "toggle", "follow"}

\* loop() leaves the statement it stands at.  Every step of LoopStep does
\* this to pc and nothing else changes pc, so in SpecLoop the steps that
\* satisfy LoopAdvance are the steps of LoopStep, and one is always possible.
LoopAdvance == \E l \in LoopLabels \ {pc} : pc' = l

\* every statement of loop() terminates (the delays, the countdown and the
\* calibrate() loop are bounded by millis()) and loop() is called for ever,
\* so the loop always takes its next step; a button may never be pressed
SpecLoopFair == SpecLoop /\ WF_pc(LoopAdvance)


(***************************************************************************)
(* loop(): running and calibrationLoaded, checked under SpecLoop           *)
(***************************************************************************)

\* C39 as stated: whenever line following is running, calibrationLoaded is
\* true.
C39_RunningImpliesCalibrated_AsStated ==
    running => calibrationLoaded

\* C39: running becomes true only at the start/stop toggle, taken while
\* calibrationLoaded is true; a calibration request has set running false
\* before performCalibration is entered, and performCalibration leaves
\* calibrationLoaded true; line following is running with calibrationLoaded
\* false only after the serial command 'c' cleared the calibration while it
\* was running, and no other step brings that about.
C39_RunningStartsCalibrated ==
    /\ [](pc \in {"calibrate", "calibrating"} => ~running)
    /\ [][ /\ (~running /\ running') =>
                 (pc = "toggle" /\ calibrationLoaded /\ calibrationLoaded')
           /\ (pc = "calibrating" /\ pc' # pc) => calibrationLoaded'
           /\ (running' /\ ~calibrationLoaded'
                 /\ ~(running /\ ~calibrationLoaded)) =>
                 /\ pc = "serial" /\ pc' = "testCalib"
                 /\ running /\ calibrationLoaded
                 /\ lastError_' = "SUCCESS"
                 /\ RecordBytes(eeprom', startAddress_) = ZeroBytes ]_vars

\* line following is running and 'c' has just cleared the calibration
C39_Witness ==
    /\ running /\ ~calibrationLoaded
    /\ pc = "testCalib"
    /\ RecordBytes(eeprom, startAddress_) = ZeroBytes


(***************************************************************************)
(* The request flags, checked under SpecLoopFair                           *)
(***************************************************************************)

\* C40: a request flag set by a handler is never lost.  The calibration flag
\* goes back to false only by the loop's own clear; a press whose handler set
\* calibRequested, wherever loop() stood, keeps the flag set until the loop
\* clears it, after which the loop sets running to false and enters
\* performCalibration, and this always happens; in the same way a start
\* press keeps startRequested set until the loop clears it and takes the
\* toggle, and this always happens.
C40_RequestsAreServed ==
    /\ [](calibStage = "pressed" => calibRequested)
    /\ [](calibStage = "cleared" => pc = "stopRunning")
    /\ [](calibStage = "stopped" => (pc = "calibrate" /\ ~running))
    /\ [](calibStage = "served" => (pc = "calibrating" /\ ~running))
    /\ [](startStage = "pressed" => startRequested)
    /\ [](startStage = "consumed" => pc = "toggle")
    /\ [][ /\ (calibRequested /\ ~calibRequested') => pc = "clearCalib"
           /\ (startRequested /\ ~startRequested') => pc = "clearStart" ]_vars
    /\ (calibStage = "pressed") ~> (calibStage = "served")
    /\ (startStage = "pressed") ~> (startStage = "consumed")

\* a press that came between the loop's test and its clear of the flag has
\* been served: performCalibration is running after it
C40_Witness ==
    /\ calibStage = "served"
    /\ calibPressAt = "clearCalib"
    /\ pc = "calibrating"

=============================================================================
